---- MODULE Spec2Model ----
(***************************************************************************)
(* A model of the gameplay core of rusty-shooter: the Game tick and its    *)
(* message queue (main.rs), the Level message handlers, respawn scheduler  *)
(* and death zones (level.rs), Character (character.rs), Weapon            *)
(* (weapon.rs), Projectile (projectile.rs) and LeaderBoard                 *)
(* (leader_board.rs).                                                      *)
(***************************************************************************)
EXTENDS Integers, Sequences, FiniteSets, TLC

(***************************************************************************)
(* Bounds of the model.                                                    *)
(***************************************************************************)
\* slots of the actor pool: the bots and the player of a new level, and one
\* actor more
ActorSlots == 3
\* slots of the weapon pool: the weapons of a new level, and the loadout of
\* one player more
WeaponSlots == 9
\* slots of the item pool
ItemSlots == 6
\* slots of the projectile pool
ProjectileSlots == 1
\* a pool slot is handed out at generations 1..MaxGen
MaxGen == 2
\* messages the senders outside a handler may have pending at once
MaxQueue == 1
\* Game::update calls of one run
MaxTicks == 3
\* death zones of the map
NumDeathZones == 2
\* bots Level::new spawns (the first NumBots of its kind list)
NumBots == 1
\* quiet periods of one run
MaxQuiet == 1
\* update_respawn calls of one run of the respawn scheduler
MaxRespawnTicks == 243
\* actors in the arena of a projectile, ray hits and contacts it gets in a tick
ArenaActors == 3
MaxRayHits == 2
MaxContacts == 2
\* the pool slots whose handles the actors and the input name in messages
EnvSlots == 2
\* ammo a weapon may hold
MaxAmmo == 450
\* the damage and heal calls made on the Character alone
MaxCalls == 4
\* the rounds in the weapon that is fired alone, and the ticks it is watched
MaxRounds == 2
MaxWeaponTicks == 14
\* the updates a projectile in flight is watched for
MaxFlightTicks == 601
\* the projectiles in flight together
FlightSlots == 2
\* the spawn points of a level, the actors standing in it, and the largest
\* coordinate of either
MaxSpawnPoints == 3
MaxStanding == 2
MaxCoord == 3
\* the calls made on the LeaderBoard alone
MaxBoardCalls == 4
\* the messages a session handles before a save is loaded
MaxSessionSteps == 2
\* the updates of a projectile before it is saved
MaxSaveTicks == 2
\* the messages in the channel when a drain begins
MaxDrainQueue == 2
\* the weapon calls made on the actors of a new level
MaxLoadoutCalls == 3
\* the frag limit of the match (MatchOptions::DeathMatch.frag_limit)
FragLimit == 1

(***************************************************************************)
(* f32 arithmetic of the countdowns.  An f32 value v is held exactly as    *)
(* the pair <<hi, lo>> with v * 2^29 = hi * 1024 + lo and 0 <= lo < 1024   *)
(* (2^-29 is the unit of the last mantissa bit of 1/60 as f32; the two     *)
(* limbs keep every value below 32.0 inside 32-bit integers).  F32Round    *)
(* rounds an exact result to 24 significant bits, ties to even, as one f32 *)
(* operation does; a negative result is exact in the range used here       *)
(* (its magnitude is below the delta subtracted).                          *)
(***************************************************************************)
Limb == 2^10

F32Norm(hi, lo) == <<hi + (lo \div Limb), lo % Limb>>

\* the f32 holding the whole number of seconds s, and the one holding n * 2^-29
F32OfInt(s) == <<s * (2^19), 0>>
F32OfUnits(n) == F32Norm(0, n)

\* a - d without rounding
ExactSub(a, d) == F32Norm(a[1] - d[1], a[2] - d[2])

\* the unit of the last mantissa bit of a value with high limb hi >= 0
RECURSIVE F32Quantum(_, _)
F32Quantum(hi, q) ==
    IF q >= Limb \/ hi < (2^14) * q THEN q ELSE F32Quantum(hi, 2 * q)

F32Round(v) ==
    IF v[1] < 0 THEN v
    ELSE LET q   == F32Quantum(v[1], 1)
             k   == v[2] \div q
             r   == v[2] % q
             odd == IF q < Limb THEN k % 2 = 1 ELSE v[1] % 2 = 1
             up  == (2 * r > q) \/ (2 * r = q /\ odd)
         IN  F32Norm(v[1], k * q + (IF up THEN q ELSE 0))

\* a -= d on f32
F32Sub(a, d) == F32Round(ExactSub(a, d))

\* v <= 0.0, v >= 0.0
F32LeZero(v) == v[1] < 0 \/ v = <<0, 0>>
F32GeZero(v) == v[1] >= 0

\* pub const RESPAWN_TIME: f32 = 4.0
RESPAWN_TIME == F32OfInt(4)

\* fixed_timestep = 1.0 / 60.0 as f32: 0x3C888889, that is 8947849 * 2^-29
FixedTimestep == F32OfUnits(8947849)

(***************************************************************************)
(* Handles and generational pools.  A handle is <<index, generation>>.     *)
(* A pool is a function from its slots to records with the fields gen and  *)
(* live next to the payload.                                               *)
(***************************************************************************)
NONE == <<0, 0>>

\* Handle::is_some
IsSome(h) == h # NONE

\* Pool::is_valid_handle, behind every container's contains()
Contains(pool, h) ==
    /\ h[1] \in DOMAIN pool
    /\ pool[h[1]].live
    /\ pool[h[1]].gen = h[2]

\* the slots a spawn may take: free, and not past the generation bound
FreeSlots(pool) == {i \in DOMAIN pool : ~pool[i].live /\ pool[i].gen <= MaxGen}

HasRoom(pool) == FreeSlots(pool) # {}

\* the slot the next spawn takes (handles are opaque: the lowest free slot
\* stands for any)
SpawnSlot(pool) == CHOOSE i \in FreeSlots(pool) : \A j \in FreeSlots(pool) : i <= j

\* the handle the next spawn returns
SpawnHandle(pool) == <<SpawnSlot(pool), pool[SpawnSlot(pool)].gen>>

\* Pool::spawn
PoolSpawn(pool, value) ==
    [pool EXCEPT ![SpawnSlot(pool)] =
        [value EXCEPT !.gen = pool[SpawnSlot(pool)].gen, !.live = TRUE]]

\* Pool::free: the slot is marked free, its generation bumped, its value dropped
PoolFree(pool, h, blank) ==
    [pool EXCEPT ![h[1]] = [blank EXCEPT !.gen = pool[h[1]].gen + 1]]

\* the live handles of a pool, and those handed out at any time
LiveHandles(pool) == {<<i, pool[i].gen>> : i \in {j \in DOMAIN pool : pool[j].live}}

IssuedHandles(pool) ==
    {h \in (DOMAIN pool) \X (1..(MaxGen + 1)) :
        h[2] < pool[h[1]].gen \/ (h[2] = pool[h[1]].gen /\ pool[h[1]].live)}

(***************************************************************************)
(* Entity records.                                                         *)
(***************************************************************************)
WeaponKinds == {"M4", "Ak47", "PlasmaRifle", "RocketLauncher"}
ItemKinds == {"Medkit", "Ak47", "PlasmaGun", "M4", "RocketLauncher",
              "Plasma", "Ak47Ammo", "M4Ammo"}
BotKinds == <<"Maw", "Mutant", "Parasite">>
PlayerName == "Player"

BlankActor ==
    [gen |-> 1, live |-> FALSE, isPlayer |-> FALSE, name |-> "", botKind |-> "",
     health |-> 0, armor |-> 0, weapons |-> <<>>, current_weapon |-> 0]

BlankWeapon ==
    [gen |-> 1, live |-> FALSE, kind |-> "", owner |-> NONE, ammo |-> 0,
     last_shot_time |-> 0, visible |-> FALSE]

BlankItem ==
    [gen |-> 1, live |-> FALSE, kind |-> "", picked |-> FALSE, dropped |-> FALSE]

BlankProjectile ==
    [gen |-> 1, live |-> FALSE, kind |-> "", owner |-> NONE, lifetime |-> 0]

\* Character::default: health 100, armor 100, no weapons
NewActor(isPlayer, name, botKind) ==
    [BlankActor EXCEPT !.isPlayer = isPlayer, !.name = name, !.botKind = botKind,
                       !.health = 100, !.armor = 100]

\* Weapon::get_definition: ammo and projectile kind of a weapon kind
DefinitionAmmo(kind) ==
    CASE kind = "M4" -> 115
      [] kind = "Ak47" -> 100
      [] kind = "PlasmaRifle" -> 40
      [] OTHER -> 250

DefinitionProjectile(kind) ==
    IF kind = "PlasmaRifle" THEN "Plasma" ELSE "Bullet"

\* Weapon::new
NewWeapon(kind, owner, visible) ==
    [BlankWeapon EXCEPT !.kind = kind, !.owner = owner,
                        !.ammo = DefinitionAmmo(kind), !.visible = visible]

(***************************************************************************)
(* Character (character.rs).                                               *)
(***************************************************************************)
\* an amount taken with its sign
Signed(x) == x

\* f32::abs
Abs(x) == IF x < 0 THEN -x ELSE x

\* a damage that stops at the armor: nothing spills over into health
DamageNoSpill(c, amount) ==
    IF c.armor > 0
    THEN [c EXCEPT !.armor = c.armor - Abs(amount)]
    ELSE [c EXCEPT !.health = c.health - Abs(amount)]

\* Character::damage
Damage(c, amount) ==
    LET a == Abs(amount) IN
    IF c.armor > 0
    THEN IF c.armor - a < 0
         THEN [c EXCEPT !.armor = c.armor - a, !.health = c.health + (c.armor - a)]
         ELSE [c EXCEPT !.armor = c.armor - a]
    ELSE [c EXCEPT !.health = c.health - a]

\* a heal without the cap
HealUnclamped(c, amount) == [c EXCEPT !.health = c.health + Abs(amount)]

\* Character::heal
Heal(c, amount) ==
    IF c.health + Abs(amount) > 150
    THEN [c EXCEPT !.health = 150]
    ELSE [c EXCEPT !.health = c.health + Abs(amount)]

\* Character::is_dead
IsDead(c) == c.health <= 0

(***************************************************************************)
(* LeaderBoard (leader_board.rs): personal_score is a function from the    *)
(* recorded names to [kills, deaths].                                      *)
(***************************************************************************)
\* a lookup that starts the record of the name anew at every reference
StartActorAnew(lb, name) ==
    [n \in DOMAIN lb \cup {name} |->
        IF n = name THEN [kills |-> 0, deaths |-> 0] ELSE lb[n]]

\* LeaderBoard::get_or_add_actor
GetOrAddActor(lb, name) ==
    IF name \in DOMAIN lb THEN lb ELSE lb @@ (name :> [kills |-> 0, deaths |-> 0])

\* LeaderBoard::add_frag
AddFrag(lb, name) ==
    [GetOrAddActor(lb, name) EXCEPT ![name].kills = @ + 1]

\* LeaderBoard::add_death
AddDeath(lb, name) ==
    [GetOrAddActor(lb, name) EXCEPT ![name].deaths = @ + 1]

EmptyBoard == [n \in {} |-> [kills |-> 0, deaths |-> 0]]

\* LeaderBoard::remove_actor
BoardRemoveActor(lb, name) == [n \in DOMAIN lb \ {name} |-> lb[n]]

\* LeaderBoard::score_of
ScoreOf(lb, name) == IF name \in DOMAIN lb THEN lb[name].kills ELSE 0

\* a search for the leader that skips nobody
HighestOfAll(lb, except, order, i, pair) ==
    IF order = <<>> THEN <<>>
    ELSE LET m == CHOOSE n \in DOMAIN lb : \A o \in DOMAIN lb : lb[o].kills <= lb[n].kills
         IN  <<[name |-> m, kills |-> lb[m].kills]>>

\* LeaderBoard::highest_personal_score: the loop over personal_score.iter(),
\* which yields the names in the order `order`, from its i-th name on with
\* the pair found so far.  An Option is the empty sequence (None) or a
\* sequence of one element (Some).
RECURSIVE HighestPersonalScore(_, _, _, _, _)
HighestPersonalScore(lb, except, order, i, pair) ==
    IF i > Len(order) THEN pair
    ELSE LET name == order[i] IN
         IF except # <<>> /\ name = except[1]
         THEN HighestPersonalScore(lb, except, order, i + 1, pair)
         ELSE IF pair = <<>>
         THEN HighestPersonalScore(lb, except, order, i + 1,
                  <<[name |-> name, kills |-> lb[name].kills]>>)
         ELSE IF lb[name].kills > pair[1].kills
         THEN HighestPersonalScore(lb, except, order, i + 1,
                  <<[name |-> name, kills |-> lb[name].kills]>>)
         ELSE HighestPersonalScore(lb, except, order, i + 1, pair)

(***************************************************************************)
(* Messages (the Message enum).  One record shape serves every variant;    *)
(* a variant reads only its own fields.                                    *)
(***************************************************************************)
Msg(kind) ==
    [kind |-> kind, actor |-> NONE, who |-> NONE, weapon |-> NONE, item |-> NONE,
     sub |-> "", state |-> FALSE, amount |-> 0]

ShowWeaponMsg(w, state) == [Msg("ShowWeapon") EXCEPT !.weapon = w, !.state = state]
RespawnActorMsg(a) == [Msg("RespawnActor") EXCEPT !.actor = a]
SpawnBotMsg(kind) == [Msg("SpawnBot") EXCEPT !.sub = kind]

(***************************************************************************)
(* The state of a Level, as the record the handlers transform:             *)
(*   actors, weapons, items, projectiles  the pools of the containers      *)
(*   player, respawn_list, leader_board   the fields of Level              *)
(*   out       the messages sent through Level.sender, in order            *)
(*   passes    the passes of Level::update that have run, in order         *)
(*   panicked  a handler indexed a pool with a handle that is not valid    *)
(*   over      a spawn found no slot within the bounds of the model        *)
(***************************************************************************)
Emit(L, m) == [L EXCEPT !.out = Append(@, m)]
Panic(L) == [L EXCEPT !.panicked = TRUE]
Over(L) == [L EXCEPT !.over = TRUE]
Stopped(L) == L.panicked \/ L.over

\* an add_weapon that does not ask to hide the weapons held before
AddWeaponShowsOnly(L, a, w) ==
    LET c == L.actors[a[1]]
    IN  [L EXCEPT !.actors[a[1]].current_weapon = Len(c.weapons),
                  !.actors[a[1]].weapons = Append(c.weapons, w),
                  !.out = Append(@, ShowWeaponMsg(w, TRUE))]

\* Character::add_weapon, with request_current_weapon_visible(true)
AddWeapon(L, a, w) ==
    LET c    == L.actors[a[1]]
        hide == [i \in 1..Len(c.weapons) |-> ShowWeaponMsg(c.weapons[i], FALSE)]
    IN  [L EXCEPT !.actors[a[1]].current_weapon = Len(c.weapons),
                  !.actors[a[1]].weapons = Append(c.weapons, w),
                  !.out = (@ \o hide) \o <<ShowWeaponMsg(w, TRUE)>>]

\* Character::request_current_weapon_visible: the message it sends, if any
RequestCurrentWeaponVisible(c, state) ==
    IF c.current_weapon < Len(c.weapons)
    THEN <<ShowWeaponMsg(c.weapons[c.current_weapon + 1], state)>>
    ELSE <<>>

\* the switch to weapon i of a Character: the Character afterwards and the
\* messages sent
SwitchWeapon(c, i) ==
    LET c1 == [c EXCEPT !.current_weapon = i]
    IN  [c |-> c1,
         out |-> RequestCurrentWeaponVisible(c, FALSE)
                    \o RequestCurrentWeaponVisible(c1, TRUE)]

\* a next_weapon that does not look at the number of weapons
NextWeaponUnchecked(c) == SwitchWeapon(c, c.current_weapon + 1)

\* Character::next_weapon
NextWeaponOf(c) ==
    IF c.weapons # <<>> /\ c.current_weapon < Len(c.weapons) - 1
    THEN SwitchWeapon(c, c.current_weapon + 1)
    ELSE [c |-> c, out |-> <<>>]

\* Character::prev_weapon
PrevWeapon(c) ==
    IF c.current_weapon > 0
    THEN SwitchWeapon(c, c.current_weapon - 1)
    ELSE [c |-> c, out |-> <<>>]

\* Character::set_current_weapon
SetCurrentWeapon(c, i) ==
    IF i < Len(c.weapons)
    THEN SwitchWeapon(c, i)
    ELSE [c |-> c, out |-> <<>>]

\* give_new_weapon (level.rs, the free function)
GiveNewWeapon(L, kind, actor, visible) ==
    IF ~Contains(L.actors, actor) THEN L
    ELSE IF ~HasRoom(L.weapons) THEN Over(L)
    ELSE LET w  == SpawnHandle(L.weapons)
             L1 == [L EXCEPT !.weapons = PoolSpawn(@, NewWeapon(kind, actor, visible))]
         IN  Emit(AddWeapon(L1, actor, w), Msg("AddNotification"))

\* Level::spawn_item
SpawnItem(L, kind, dropped) ==
    IF ~HasRoom(L.items) THEN Over(L)
    ELSE [L EXCEPT !.items =
            PoolSpawn(@, [BlankItem EXCEPT !.kind = kind, !.dropped = dropped])]

\* Level::remove_weapon
RemoveWeapon(L, w) ==
    IF ~Contains(L.weapons, w) THEN Panic(L)
    ELSE [L EXCEPT
            !.projectiles = [i \in DOMAIN L.projectiles |->
                IF L.projectiles[i].live /\ L.projectiles[i].owner = w
                THEN [L.projectiles[i] EXCEPT !.owner = NONE]
                ELSE L.projectiles[i]],
            !.weapons = PoolFree(@, w, BlankWeapon)]

\* the item a removed actor's weapon is dropped as
DroppedItemKind(weaponKind) ==
    CASE weaponKind = "M4" -> "M4"
      [] weaponKind = "Ak47" -> "Ak47"
      [] weaponKind = "PlasmaRifle" -> "PlasmaGun"
      [] OTHER -> "RocketLauncher"

\* the loop of remove_actor freeing the weapons without dropping them as items
RECURSIVE DropWeaponsNoItems(_, _)
DropWeaponsNoItems(L, ws) ==
    IF ws = <<>> \/ Stopped(L) THEN L
    ELSE DropWeaponsNoItems(RemoveWeapon(L, Head(ws)), Tail(ws))

\* the loop of remove_actor over the actor's weapons
RECURSIVE DropWeapons(_, _)
DropWeapons(L, ws) ==
    IF ws = <<>> \/ Stopped(L) THEN L
    ELSE IF ~Contains(L.weapons, Head(ws)) THEN Panic(L)
    ELSE DropWeapons(
            RemoveWeapon(
                SpawnItem(L, DroppedItemKind(L.weapons[Head(ws)[1]].kind), TRUE),
                Head(ws)),
            Tail(ws))

\* remove_actor that drops the weapons but leaves the actor in its pool
RemoveActorKeepsSlot(L, actor) ==
    IF ~Contains(L.actors, actor) THEN L
    ELSE DropWeapons(L, L.actors[actor[1]].weapons)

\* remove_actor that frees the actor and leaves its weapons in their pool
RemoveActorKeepsWeapons(L, actor) ==
    IF ~Contains(L.actors, actor) THEN L
    ELSE [L EXCEPT !.actors = PoolFree(@, actor, BlankActor),
                   !.player = IF @ = actor THEN NONE ELSE @]

\* Level::remove_actor
RemoveActor(L, actor) ==
    IF ~Contains(L.actors, actor) THEN L
    ELSE LET L1 == DropWeapons(L, L.actors[actor[1]].weapons)
         IN  IF Stopped(L1) THEN L1
             ELSE [L1 EXCEPT !.actors = PoolFree(@, actor, BlankActor),
                             !.player = IF @ = actor THEN NONE ELSE @]

\* the weapon kind an item stands for (weapon items and ammo items)
ItemWeaponKind(kind) ==
    CASE kind \in {"Ak47", "Ak47Ammo"} -> "Ak47"
      [] kind \in {"PlasmaGun", "Plasma"} -> "PlasmaRifle"
      [] kind \in {"M4", "M4Ammo"} -> "M4"
      [] OTHER -> "RocketLauncher"

\* the loops of give_item over the actor's weapons: the first weapon of kind
\* wk, NONE when there is none; "panic" when a handle before it is not valid
RECURSIVE FindWeapon(_, _, _)
FindWeapon(weapons, ws, wk) ==
    IF ws = <<>> THEN [panic |-> FALSE, found |-> NONE]
    ELSE IF ~Contains(weapons, Head(ws)) THEN [panic |-> TRUE, found |-> NONE]
    ELSE IF weapons[Head(ws)[1]].kind = wk THEN [panic |-> FALSE, found |-> Head(ws)]
    ELSE FindWeapon(weapons, Tail(ws), wk)

\* Weapon::add_ammo
AddAmmo(L, w, amount) ==
    IF L.weapons[w[1]].ammo + amount > MaxAmmo THEN Over(L)
    ELSE [L EXCEPT !.weapons[w[1]].ammo = @ + amount]

\* Level::give_item
GiveItem(L, actor, kind) ==
    IF ~Contains(L.actors, actor) THEN L
    ELSE IF kind = "Medkit"
    THEN [L EXCEPT !.actors[actor[1]] = Heal(@, 20)]
    ELSE LET f == FindWeapon(L.weapons, L.actors[actor[1]].weapons, ItemWeaponKind(kind))
         IN  IF f.panic THEN Panic(L)
             ELSE IF IsSome(f.found) THEN AddAmmo(L, f.found, 200)
             ELSE IF kind \in {"Ak47", "PlasmaGun", "M4", "RocketLauncher"}
             THEN GiveNewWeapon(L, ItemWeaponKind(kind), actor, TRUE)
             ELSE L

\* Level::pickup_item
PickupItem(L, actor, item) ==
    IF ~(Contains(L.actors, actor) /\ Contains(L.items, item)) THEN L
    ELSE GiveItem(
            [L EXCEPT !.items[item[1]].picked = TRUE,
                      !.out = @ \o <<Msg("AddNotification"), Msg("PlaySound")>>],
            actor, L.items[item[1]].kind)

\* Projectile::get_definition
DefinitionDamage(kind) == IF kind = "Plasma" THEN 30 ELSE 20
DefinitionLifetime(kind) == F32OfInt(10)

\* Level::create_projectile
CreateProjectile(L, kind, owner) ==
    IF ~HasRoom(L.projectiles) THEN Over(L)
    ELSE [L EXCEPT !.projectiles =
            PoolSpawn(@, [BlankProjectile EXCEPT !.kind = kind, !.owner = owner,
                                                 !.lifetime = DefinitionLifetime(kind)])]

\* an interval test that lets a shot through one tick early
FireIntervalOneShort(k, d) ==
    IF d[1] >= 52429 THEN k >= 0
    ELSE k >= 53687091 \div (d[1] * Limb + d[2])

\* time.elapsed - last_shot_time >= 0.1 after k ticks of length d: 0.1 is
\* 53687091.2 * 2^-29, and a d with high limb 52429 or more exceeds it
FireIntervalPassed(k, d) ==
    IF d[1] >= 52429 THEN k >= 1
    ELSE k >= (53687091 \div (d[1] * Limb + d[2])) + 1

\* a condition of try_shoot that does not look at the ammo
CanShootEmpty(w, now, d) == FireIntervalPassed(now - w.last_shot_time, d)

\* the condition of Weapon::try_shoot
CanShoot(w, now, d) == w.ammo # 0 /\ FireIntervalPassed(now - w.last_shot_time, d)

\* Weapon::try_shoot: the weapon afterwards, the sound messages sent and
\* the value returned
TryShoot(w, now, d) ==
    IF CanShoot(w, now, d)
    THEN [weapon |-> [w EXCEPT !.ammo = @ - 1, !.last_shot_time = now],
          sounds |-> <<Msg("PlaySound")>>,
          ok |-> TRUE]
    ELSE [weapon |-> w, sounds |-> <<>>, ok |-> FALSE]

\* shoot_weapon that creates the projectile whatever try_shoot returns
ShootWeaponUnchecked(L, w, now, d) ==
    IF ~Contains(L.weapons, w) THEN L
    ELSE LET shot == TryShoot(L.weapons[w[1]], now, d)
         IN  CreateProjectile(
                [L EXCEPT !.weapons[w[1]] = shot.weapon,
                          !.out = @ \o shot.sounds],
                DefinitionProjectile(L.weapons[w[1]].kind), w)

\* Level::shoot_weapon, with Weapon::try_shoot
ShootWeapon(L, w, now, d) ==
    IF ~Contains(L.weapons, w) THEN L
    ELSE LET shot == TryShoot(L.weapons[w[1]], now, d)
         IN  IF ~shot.ok THEN L
             ELSE CreateProjectile(
                    [L EXCEPT !.weapons[w[1]] = shot.weapon,
                              !.out = @ \o shot.sounds],
                    DefinitionProjectile(L.weapons[w[1]].kind), w)

\* show_weapon that sends the message it handles once more
ShowWeaponResent(L, w, state) ==
    IF ~Contains(L.weapons, w) THEN Panic(L)
    ELSE Emit([L EXCEPT !.weapons[w[1]].visible = state], ShowWeaponMsg(w, state))

\* Level::show_weapon
ShowWeapon(L, w, state) ==
    IF ~Contains(L.weapons, w) THEN Panic(L)
    ELSE [L EXCEPT !.weapons[w[1]].visible = state]

\* add_bot (level.rs, the free function); the bot carries the name of its kind
AddBot(L, kind) ==
    IF ~HasRoom(L.actors) THEN Over(L)
    ELSE LET bot == SpawnHandle(L.actors)
             L1  == [L EXCEPT !.leader_board = GetOrAddActor(@, kind),
                              !.actors = PoolSpawn(@, NewActor(FALSE, kind, kind))]
         IN  GiveNewWeapon(L1, "Ak47", bot, TRUE)

\* Level::spawn_bot
SpawnBot(L, kind) ==
    LET L1 == AddBot(L, kind)
    IN  IF Stopped(L1) THEN L1 ELSE Emit(L1, Msg("AddNotification"))

\* the loadout of spawn_player, in order
WeaponsToGive == <<"M4", "Ak47", "PlasmaRifle", "RocketLauncher">>

RECURSIVE GiveLoadout(_, _, _)
GiveLoadout(L, player, i) ==
    IF i > Len(WeaponsToGive) \/ Stopped(L) THEN L
    ELSE GiveLoadout(
            GiveNewWeapon(L, WeaponsToGive[i], player, i = Len(WeaponsToGive)),
            player, i + 1)

\* spawn_player, and the assignment to Level.player made by its callers
SpawnPlayer(L) ==
    IF ~HasRoom(L.actors) THEN Over(L)
    ELSE LET p  == SpawnHandle(L.actors)
             L1 == [L EXCEPT !.actors = PoolSpawn(@, NewActor(TRUE, PlayerName, "")),
                             !.player = p]
         IN  GiveLoadout(L1, p, 1)

\* damage_actor that credits a frag for every damage that leaves the target
\* dead
DamageActorFragsTheDead(L, actor, who, amount) ==
    IF ~(Contains(L.actors, actor) /\ (~IsSome(who) \/ Contains(L.actors, who)))
    THEN L
    ELSE LET c  == L.actors[actor[1]]
             c1 == Damage(c, amount)
             L1 == [Emit(L, Msg("AddNotification")) EXCEPT !.actors[actor[1]] = c1]
         IN  IF IsDead(c1) /\ IsSome(who)
             THEN [L1 EXCEPT !.leader_board = AddFrag(@, L.actors[who[1]].name)]
             ELSE L1

\* damage_actor that does not look at the handle of the attacker
DamageActorAnyAttacker(L, actor, who, amount) ==
    IF ~Contains(L.actors, actor) THEN L
    ELSE LET c  == L.actors[actor[1]]
             c1 == Damage(c, amount)
             L1 == [Emit(L, Msg("AddNotification")) EXCEPT !.actors[actor[1]] = c1]
         IN  IF ~IsDead(c) /\ IsDead(c1) /\ IsSome(who)
             THEN [L1 EXCEPT !.leader_board = AddFrag(@, L.actors[who[1]].name)]
             ELSE L1

\* Level::damage_actor
DamageActor(L, actor, who, amount) ==
    IF ~(Contains(L.actors, actor) /\ (~IsSome(who) \/ Contains(L.actors, who)))
    THEN L
    ELSE LET c  == L.actors[actor[1]]
             c1 == Damage(c, amount)
             L1 == [Emit(L, Msg("AddNotification")) EXCEPT !.actors[actor[1]] = c1]
         IN  IF ~IsDead(c) /\ IsDead(c1) /\ IsSome(who)
             THEN [L1 EXCEPT !.leader_board = AddFrag(@, L.actors[who[1]].name)]
             ELSE L1

\* the RespawnEntry respawn_actor makes for an actor
NewRespawnEntry(c) ==
    [isPlayer |-> c.isPlayer, name |-> c.name, kind |-> c.botKind,
     time_left |-> RESPAWN_TIME]

\* respawn_actor without the check that the actor is still in its container
RespawnActorUnguarded(L, actor) ==
    LET c  == L.actors[actor[1]]
        L1 == RemoveActor([L EXCEPT !.leader_board = AddDeath(@, c.name)], actor)
    IN  IF Stopped(L1) THEN L1
        ELSE [L1 EXCEPT !.respawn_list = Append(@, NewRespawnEntry(c))]

\* Level::respawn_actor
RespawnActor(L, actor) ==
    IF ~Contains(L.actors, actor) THEN L
    ELSE LET c  == L.actors[actor[1]]
             L1 == RemoveActor([L EXCEPT !.leader_board = AddDeath(@, c.name)], actor)
         IN  IF Stopped(L1) THEN L1
             ELSE [L1 EXCEPT !.respawn_list = Append(@, NewRespawnEntry(c))]

(***************************************************************************)
(* The respawn scheduler and the death zones (level.rs).                   *)
(***************************************************************************)
\* the spawn message of a respawn entry
SpawnMsgOf(e) == IF e.isPlayer THEN Msg("SpawnPlayer") ELSE SpawnBotMsg(e.kind)

\* a retain that drops no entry
RetainedAlways(e) == TRUE

\* the entries update_respawn keeps: respawn_list.retain(time_left >= 0.0)
Retained(e) == F32GeZero(e.time_left)

\* the entries update_respawn sends a spawn message for: time_left <= 0.0
Elapsed(e) == F32LeZero(e.time_left)

\* Level::update_respawn
UpdateRespawn(L, d) ==
    LET counted == [i \in 1..Len(L.respawn_list) |->
                       [L.respawn_list[i] EXCEPT !.time_left = F32Sub(@, d)]]
    IN  [L EXCEPT !.out = @ \o [i \in 1..Len(SelectSeq(counted, Elapsed)) |->
                                   SpawnMsgOf(SelectSeq(counted, Elapsed)[i])],
                  !.respawn_list = SelectSeq(counted, Retained)]

\* Level::update_death_zones: zones[i] is the number of death zones that hold
\* the position of the actor in slot i; the actors are visited in slot order
RECURSIVE DeathZoneMsgs(_, _, _)
DeathZoneMsgs(pool, zones, i) ==
    IF i > Len(pool) THEN <<>>
    ELSE (IF pool[i].live
          THEN [k \in 1..zones[i] |-> RespawnActorMsg(<<i, pool[i].gen>>)]
          ELSE <<>>) \o DeathZoneMsgs(pool, zones, i + 1)

UpdateDeathZones(L, zones) ==
    [L EXCEPT !.out = @ \o DeathZoneMsgs(L.actors, zones, 1)]

(***************************************************************************)
(* Projectile::update (projectile.rs).  A ray hit or a contact is given by *)
(* the body it reports: i >= 1 is the body of the actor in slot i, 0 is    *)
(* static geometry (a hit that is no body), -1 a body of no actor.         *)
(***************************************************************************)
\* a ray loop that takes the first actor hit, the owner of the weapon or not
RayPhaseAnyActor(hits, owner, pool, weapons) ==
    IF hits = <<>> THEN [hit |-> NONE, killed |-> FALSE, panic |-> FALSE]
    ELSE IF Head(hits) = 0 THEN [hit |-> NONE, killed |-> TRUE, panic |-> FALSE]
    ELSE IF Head(hits) \in DOMAIN pool /\ pool[Head(hits)].live
    THEN [hit |-> <<Head(hits), pool[Head(hits)].gen>>, killed |-> TRUE, panic |-> FALSE]
    ELSE [hit |-> NONE, killed |-> FALSE, panic |-> FALSE]

\* the ray loop: the actor hit (NONE when none), whether the projectile was
\* killed, and whether weapons.get(self.owner) failed
RECURSIVE RayPhase(_, _, _, _)
RayPhase(hits, owner, pool, weapons) ==
    IF hits = <<>> THEN [hit |-> NONE, killed |-> FALSE, panic |-> FALSE]
    ELSE LET b == Head(hits) IN
         IF b = 0 THEN [hit |-> NONE, killed |-> TRUE, panic |-> FALSE]
         ELSE IF b \in DOMAIN pool /\ pool[b].live
         THEN IF ~Contains(weapons, owner)
              THEN [hit |-> NONE, killed |-> FALSE, panic |-> TRUE]
              ELSE IF weapons[owner[1]].owner # <<b, pool[b].gen>>
              THEN [hit |-> <<b, pool[b].gen>>, killed |-> TRUE, panic |-> FALSE]
              ELSE RayPhase(Tail(hits), owner, pool, weapons)
         ELSE RayPhase(Tail(hits), owner, pool, weapons)

\* the contact loop of a projectile with a body, continuing from acc
RECURSIVE ContactPhase(_, _, _, _, _)
ContactPhase(cs, owner, pool, weapons, acc) ==
    IF cs = <<>> \/ acc.panic THEN acc
    ELSE LET b == Head(cs) IN
         IF b \in DOMAIN pool /\ pool[b].live
         THEN IF ~Contains(weapons, owner)
              THEN [acc EXCEPT !.panic = TRUE]
              ELSE IF weapons[owner[1]].owner # <<b, pool[b].gen>>
              THEN ContactPhase(Tail(cs), owner, pool, weapons,
                       [acc EXCEPT !.hits = Append(@, <<b, pool[b].gen>>),
                                   !.killed = TRUE])
              ELSE ContactPhase(Tail(cs), owner, pool, weapons, acc)
         ELSE ContactPhase(Tail(cs), owner, pool, weapons,
                  [acc EXCEPT !.killed = TRUE])

\* Vec::dedup_by(|a, b| *a == *b): consecutive equal elements collapse
RECURSIVE Dedup(_)
Dedup(s) ==
    IF Len(s) <= 1 THEN s
    ELSE IF s[1] = s[2] THEN Dedup(Tail(s))
    ELSE <<s[1]>> \o Dedup(Tail(s))

\* the actors a projectile update damages, in order, after the dedup
HitActors(p, rays, cs, pool, weapons) ==
    LET r   == RayPhase(rays, p.owner, pool, weapons)
        acc == [hits |-> IF IsSome(r.hit) THEN <<r.hit>> ELSE <<>>,
                killed |-> r.killed, panic |-> r.panic]
        c   == IF p.kind = "Plasma"
               THEN ContactPhase(cs, p.owner, pool, weapons, acc)
               ELSE acc
    IN  [c EXCEPT !.hits = Dedup(@)]

\* the damage loop over the hit actors
RECURSIVE DamageAll(_, _, _)
DamageAll(pool, hs, amount) ==
    IF hs = <<>> THEN pool
    ELSE DamageAll([pool EXCEPT ![Head(hs)[1]] = Damage(@, amount)], Tail(hs), amount)

\* a projectile whose lifetime a hit leaves alone
KeepLifetime(p) == p.lifetime

\* Projectile::kill
Kill(p) == <<0, 0>>

\* Projectile::update of the projectile in slot i
ProjectileUpdate(L, i, rays, cs, d) ==
    LET p == L.projectiles[i]
        h == HitActors(p, rays, cs, L.actors, L.weapons)
    IN  IF h.panic THEN Panic(L)
        ELSE [L EXCEPT
                !.projectiles[i].lifetime =
                    F32Sub(IF h.killed THEN Kill(p) ELSE p.lifetime, d),
                !.actors = DamageAll(@, h.hits, DefinitionDamage(p.kind))]

\* a test that takes a lifetime of exactly 0 for alive
ProjectileIsDeadBelowZero(p) == p.lifetime[1] < 0

\* Projectile::is_dead
ProjectileIsDead(p) == F32LeZero(p.lifetime)

\* ProjectileContainer::update: every live projectile is updated (physics[i]
\* gives the ray hits and contacts of slot i), then the dead ones are freed
RECURSIVE UpdateEach(_, _, _, _)
UpdateEach(L, physics, d, i) ==
    IF i > Len(L.projectiles) \/ Stopped(L) THEN L
    ELSE UpdateEach(
            IF L.projectiles[i].live
            THEN ProjectileUpdate(L, i, physics[i].rays, physics[i].contacts, d)
            ELSE L,
            physics, d, i + 1)

ProjectileContainerUpdate(L, physics, d) ==
    LET L1 == UpdateEach(L, physics, d, 1)
    IN  IF Stopped(L1) THEN L1
        ELSE [L1 EXCEPT !.projectiles = [i \in DOMAIN L1.projectiles |->
                IF L1.projectiles[i].live /\ ProjectileIsDead(L1.projectiles[i])
                THEN [BlankProjectile EXCEPT !.gen = L1.projectiles[i].gen + 1]
                ELSE L1.projectiles[i]]]

(***************************************************************************)
(* Level::new, Level::update and Level::handle_message (level.rs).         *)
(***************************************************************************)
EmptyPool(n, blank) == [i \in 1..n |-> blank]

\* the value the level variables hold while Game.level is None
NoLevel ==
    [actors |-> EmptyPool(ActorSlots, BlankActor),
     weapons |-> EmptyPool(WeaponSlots, BlankWeapon),
     items |-> EmptyPool(ItemSlots, BlankItem),
     projectiles |-> EmptyPool(ProjectileSlots, BlankProjectile),
     player |-> NONE, respawn_list |-> <<>>, leader_board |-> EmptyBoard,
     out |-> <<>>, passes |-> <<>>, panicked |-> FALSE, over |-> FALSE]

\* the loop of Level::new over the bot kinds (spawn_bot, the free function,
\* is add_bot at a spawn point)
RECURSIVE SpawnBots(_, _)
SpawnBots(L, i) ==
    IF i > NumBots \/ Stopped(L) THEN L
    ELSE SpawnBots(AddBot(L, BotKinds[i]), i + 1)

\* Level::new: the bots, then the player
NewLevel ==
    LET L1 == SpawnBots(NoLevel, 1)
    IN  IF Stopped(L1) THEN L1 ELSE SpawnPlayer(L1)

\* LeaderBoard::is_match_over for a DeathMatch: a score has reached the
\* frag limit
IsMatchOver(lb) == \E n \in DOMAIN lb : lb[n].kills >= FragLimit

\* update_game_ending that never ends the match
UpdateGameEndingNever(L) == L

\* Level::update_game_ending
UpdateGameEnding(L) ==
    IF IsMatchOver(L.leader_board) THEN Emit(L, Msg("EndMatch")) ELSE L

\* the statements of Level::update in a different order: the actors are
\* updated before the death zones are tested
PassOrderActorsFirst ==
    <<"update_respawn", "proximity_events", "update_spectator_camera", "actors",
      "update_death_zones", "weapons", "projectiles", "items", "contact_events",
      "update_game_ending">>

\* the statements of Level::update, in order
PassOrder ==
    <<"update_respawn", "proximity_events", "update_spectator_camera",
      "update_death_zones", "weapons", "projectiles", "items", "actors",
      "contact_events", "update_game_ending">>

\* one pass of Level::update; the passes over the scene, the weapons, the
\* items and the actors change nothing the Level record holds
RunPass(L, name, zones, physics, d) ==
    LET R == CASE name = "update_respawn"     -> UpdateRespawn(L, d)
               [] name = "update_death_zones" -> UpdateDeathZones(L, zones)
               [] name = "projectiles"        -> ProjectileContainerUpdate(L, physics, d)
               [] name = "update_game_ending" -> UpdateGameEnding(L)
               [] OTHER                       -> L
    IN  [R EXCEPT !.passes = Append(@, name)]

RECURSIVE RunPasses(_, _, _, _, _, _)
RunPasses(L, order, zones, physics, d, i) ==
    IF i > Len(order) \/ Stopped(L) THEN L
    ELSE RunPasses(RunPass(L, order[i], zones, physics, d), order, zones, physics, d, i + 1)

\* Level::update
LevelUpdate(L, zones, physics, d) == RunPasses(L, PassOrder, zones, physics, d, 1)

\* Level::handle_message; now is time.elapsed in ticks, d is time.delta
LevelHandle(L, m, now, d) ==
    CASE m.kind = "GiveNewWeapon" -> GiveNewWeapon(L, m.sub, m.actor, TRUE)
      [] m.kind = "AddBot"        -> AddBot(L, m.sub)
      [] m.kind = "RemoveActor"   -> RemoveActor(L, m.actor)
      [] m.kind = "GiveItem"      -> GiveItem(L, m.actor, m.sub)
      [] m.kind = "PickUpItem"    -> PickupItem(L, m.actor, m.item)
      [] m.kind = "ShootWeapon"   -> ShootWeapon(L, m.weapon, now, d)
      [] m.kind = "CreateProjectile" -> CreateProjectile(L, m.sub, m.weapon)
      [] m.kind = "ShowWeapon"    -> ShowWeapon(L, m.weapon, m.state)
      [] m.kind = "SpawnBot"      -> SpawnBot(L, m.sub)
      [] m.kind = "DamageActor"   -> DamageActor(L, m.actor, m.who, m.amount)
      [] m.kind = "SpawnPlayer"   -> SpawnPlayer(L)
      [] m.kind = "SpawnItem"     -> SpawnItem(L, m.sub, FALSE)
      [] m.kind = "RespawnActor"  -> RespawnActor(L, m.actor)
      [] OTHER -> L

\* the HUD sync of Game::update: level.get_actors().get(player) and
\* level.get_weapons().get(current_weapon) fail on a handle that is not valid
HudSyncFails(L) ==
    /\ IsSome(L.player)
    /\ \/ ~Contains(L.actors, L.player)
       \/ LET c == L.actors[L.player[1]]
          IN  /\ c.current_weapon + 1 <= Len(c.weapons)
              /\ IsSome(c.weapons[c.current_weapon + 1])
              /\ ~Contains(L.weapons, c.weapons[c.current_weapon + 1])

(***************************************************************************)
(* The Game (main.rs): its level, its message channel and its tick.        *)
(*   running, hasLevel         Game.running, Game.level.is_some()          *)
(*   actors .. leader_board    the fields of the Level (NoLevel when None) *)
(*   queue     the channel events_sender/events_receiver: entries          *)
(*             [m, seq, late], seq numbering the messages of a tick in the *)
(*             order sent, late telling the ones sent by a handler         *)
(*   pc        "idle" between two Game::update calls, "drain" inside       *)
(*             handle_messages                                             *)
(*   elapsed   time.elapsed in ticks; quiets counts the quiet periods      *)
(*   delta     time.delta                                                  *)
(*   panicked  "no", or the place where the process panicked               *)
(* History of the current tick: sent (messages enqueued), log (entries     *)
(* handled, in order), respawns (one record per RespawnActor handled by    *)
(* the current level), passes (the steps Game::update has run before it    *)
(* calls handle_messages); drains counts the completed handle_messages     *)
(* calls,                                                                  *)
(* freed holds the actor handles remove_actor of the current level was     *)
(* entered with while valid.                                               *)
(* fired, rays, contacts, damaged, last_call belong to the specifications  *)
(* of the single components below.                                         *)
(***************************************************************************)
VARIABLES running, hasLevel, actors, weapons, items, projectiles, player,
          respawn_list, leader_board, queue, pc, elapsed, quiets, delta,
          panicked, sent, log, respawns, passes, drains, freed,
          fired, rays, contacts, damaged, last_call

levelVars == <<actors, weapons, items, projectiles, player, respawn_list, leader_board>>
tickHistory == <<sent, log, respawns, passes>>
otherVars == <<fired, rays, contacts, damaged, last_call>>
vars == <<running, hasLevel, levelVars, queue, pc, elapsed, quiets, delta,
          panicked, tickHistory, drains, freed, otherVars>>

\* the Level as the record the handlers transform
TheLevel ==
    [actors |-> actors, weapons |-> weapons, items |-> items,
     projectiles |-> projectiles, player |-> player,
     respawn_list |-> respawn_list, leader_board |-> leader_board,
     out |-> <<>>, passes |-> <<>>, panicked |-> FALSE, over |-> FALSE]

SetLevel(R) ==
    /\ actors' = R.actors
    /\ weapons' = R.weapons
    /\ items' = R.items
    /\ projectiles' = R.projectiles
    /\ player' = R.player
    /\ respawn_list' = R.respawn_list
    /\ leader_board' = R.leader_board

\* Sender::send of the messages ms, after n messages of this tick
Enqueued(ms, n, late) ==
    [i \in 1..Len(ms) |-> [m |-> ms[i], seq |-> n + i, late |-> late]]

\* try_recv that returns the newest message instead of the oldest
ReceivedLast(q) == q[Len(q)]

\* try_recv that also discards the message behind the one it returns
RemainingSkipsOne(q) == IF Len(q) > 1 THEN Tail(Tail(q)) ELSE Tail(q)

\* Receiver::try_recv: the message received, and what stays in the channel
Received(q) == Head(q)
Remaining(q) == Tail(q)

\* a drain that stops at the first message enqueued by a handler
DrainStopsAtLate(q) == IF q = <<>> THEN TRUE ELSE Head(q).late

\* try_recv returns Err: the loop of handle_messages ends
DrainFinished(q) == q = <<>>

\* no call recorded
NoCall == [op |-> "none"]

\* Game::run: no level, an empty channel
Init ==
    /\ running = TRUE
    /\ hasLevel = FALSE
    /\ actors = NoLevel.actors
    /\ weapons = NoLevel.weapons
    /\ items = NoLevel.items
    /\ projectiles = NoLevel.projectiles
    /\ player = NONE
    /\ respawn_list = <<>>
    /\ leader_board = EmptyBoard
    /\ queue = <<>>
    /\ pc = "idle"
    /\ elapsed = 0
    /\ quiets = 0
    /\ delta = FixedTimestep
    /\ panicked = "no"
    /\ sent = 0
    /\ log = <<>>
    /\ respawns = <<>>
    /\ passes = <<>>
    /\ drains = 0
    /\ freed = {}
    /\ fired = <<>>
    /\ rays = <<>>
    /\ contacts = <<>>
    /\ damaged = <<>>
    /\ last_call = NoCall

\* the length of a quiet period in ticks: RESPAWN_TIME seconds at 60 ticks
\* per second
QuietTicks == 4 * 60

\* a countdown t after n ticks of length d (the ticks are split in halves
\* to keep the evaluation shallow)
RECURSIVE CountdownAfter(_, _, _)
CountdownAfter(t, d, n) ==
    IF n = 0 THEN t
    ELSE IF n = 1 THEN F32Sub(t, d)
    ELSE LET half == CountdownAfter(t, d, n \div 2)
         IN  IF F32GeZero(half) \/ F32LeZero(half)
             THEN CountdownAfter(half, d, n - (n \div 2))
             ELSE half

\* a further Game::update call is within the bounds of the run
CanTick == elapsed - QuietTicks * quiets < MaxTicks

\* the menu sends StartNewGame or QuitGame (menu.rs)
MenuKinds == {"StartNewGame", "QuitGame"}

MenuSend ==
    /\ pc = "idle" /\ running /\ panicked = "no"
    /\ CanTick
    /\ Len(queue) < MaxQueue
    /\ \E k \in MenuKinds :
          queue' = queue \o Enqueued(<<Msg(k)>>, sent, FALSE)
    /\ sent' = sent + 1
    /\ UNCHANGED <<running, hasLevel, levelVars, pc, elapsed, quiets, delta,
                   panicked, log, respawns, passes, drains, freed, otherVars>>

\* the handles of a pool the senders outside the handlers put in messages:
\* any handle ever handed out for one of the first EnvSlots slots
EnvHandles(pool) == {h \in IssuedHandles(pool) : h[1] <= EnvSlots}

\* the Level messages sent between two ticks by the actors, the items and
\* the input (actor.rs, bot.rs, player.rs, item.rs), over small payload sets
EnvMessages ==
    LET as == EnvHandles(actors)
        ws == EnvHandles(weapons)
        is == EnvHandles(items)
    IN  {[Msg("RespawnActor") EXCEPT !.actor = a] : a \in as}
        \cup {[Msg("RemoveActor") EXCEPT !.actor = a] : a \in as}
        \cup {[Msg("GiveNewWeapon") EXCEPT !.actor = a, !.sub = "PlasmaRifle"] : a \in as}
        \cup {[Msg("GiveItem") EXCEPT !.actor = a, !.sub = k] :
                 a \in as, k \in {"Medkit", "Ak47Ammo"}}
        \cup {[Msg("PickUpItem") EXCEPT !.actor = a, !.item = i] : a \in as, i \in is}
        \cup {[Msg("ShootWeapon") EXCEPT !.weapon = w] : w \in ws}
        \cup {ShowWeaponMsg(w, FALSE) : w \in ws}
        \cup {[Msg("DamageActor") EXCEPT !.actor = a, !.who = b, !.amount = n] :
                 a \in as, b \in as \cup {NONE}, n \in {100, 200}}

EnvSend ==
    /\ pc = "idle" /\ running /\ panicked = "no" /\ hasLevel
    /\ CanTick
    /\ Len(queue) < MaxQueue
    /\ \E m \in EnvMessages :
          queue' = queue \o Enqueued(<<m>>, sent, FALSE)
    /\ sent' = sent + 1
    /\ UNCHANGED <<running, hasLevel, levelVars, pc, elapsed, quiets, delta,
                   panicked, log, respawns, passes, drains, freed, otherVars>>

\* what the physics may report for a projectile in one tick
NoPhysics == [rays |-> <<>>, contacts |-> <<>>]

PhysicsOf(p, pool) ==
    IF ~p.live THEN {NoPhysics}
    ELSE {NoPhysics, [rays |-> <<0>>, contacts |-> <<>>]}
         \cup {[rays |-> <<i>>, contacts |-> <<>>] : i \in {j \in DOMAIN pool : pool[j].live}}

\* the death zones an actor may stand in
ZonesOf(a) == IF a.live THEN 0..NumDeathZones ELSE {0}

\* Game::update up to the call of handle_messages
GameUpdate ==
    /\ pc = "idle" /\ running /\ panicked = "no"
    /\ CanTick
    /\ elapsed' = elapsed + 1
    /\ pc' = "drain"
    /\ IF hasLevel
       THEN \E zones \in [DOMAIN actors -> 0..NumDeathZones],
               physics \in [DOMAIN projectiles -> UNION {PhysicsOf(projectiles[i], actors) :
                                                          i \in DOMAIN projectiles}] :
               /\ \A i \in DOMAIN actors : zones[i] \in ZonesOf(actors[i])
               /\ \A i \in DOMAIN projectiles :
                     physics[i] \in PhysicsOf(projectiles[i], actors)
               /\ LET R == LevelUpdate(TheLevel, zones, physics, delta)
                  IN  /\ ~R.over
                      /\ SetLevel(R)
                      /\ panicked' = IF R.panicked THEN "Level::update"
                                     ELSE IF HudSyncFails(R) THEN "Game::update"
                                     ELSE "no"
                      /\ queue' = queue \o Enqueued(R.out, sent, FALSE)
                      /\ sent' = sent + Len(R.out)
                      /\ passes' = <<"Engine::update">> \o R.passes
       ELSE /\ passes' = <<"Engine::update">>
            /\ UNCHANGED <<levelVars, panicked, queue, sent>>
    /\ UNCHANGED <<running, hasLevel, quiets, delta, log, respawns, drains,
                   freed, otherVars>>

\* the match of handle_messages on the Game's own messages: whether there
\* is a level afterwards, and which
GameHandle(m) ==
    CASE m.kind = "StartNewGame" -> [has |-> TRUE, L |-> NewLevel]
      [] m.kind = "QuitGame"     -> [has |-> FALSE, L |-> NoLevel]
      [] OTHER                   -> [has |-> hasLevel, L |-> TheLevel]

\* the record of one RespawnActor message handled: the actor, whether its
\* handle was valid, the weapons it held, and what the handler added
RespawnRecord(m, L, R) ==
    LET live == Contains(L.actors, m.actor)
        name == IF live THEN L.actors[m.actor[1]].name ELSE ""
        before == IF name \in DOMAIN L.leader_board
                  THEN L.leader_board[name].deaths ELSE 0
        after == IF name \in DOMAIN R.leader_board
                 THEN R.leader_board[name].deaths ELSE 0
    IN  [actor |-> m.actor, live |-> live,
         held |-> IF live THEN Len(L.actors[m.actor[1]].weapons) ELSE 0,
         deaths |-> after - before,
         entries |-> Len(R.respawn_list) - Len(L.respawn_list)]

\* a Game::update that may handle messages before it has updated the level
HandlingBeforeUpdate == pc \in {"idle", "drain"}

\* Game::update has reached its call of handle_messages
InHandleMessages == pc = "drain"

\* one iteration of the loop of handle_messages
HandleMessage ==
    /\ InHandleMessages /\ panicked = "no"
    /\ ~DrainFinished(queue)
    /\ LET e == Received(queue)
           G == GameHandle(e.m)
           R == IF G.has THEN LevelHandle(G.L, e.m, elapsed, delta) ELSE G.L
       IN  /\ ~R.over
           /\ hasLevel' = G.has
           /\ running' = (running /\ e.m.kind # "QuitGame")
           /\ SetLevel(R)
           /\ panicked' = IF R.panicked THEN e.m.kind ELSE "no"
           /\ queue' = Remaining(queue) \o Enqueued(R.out, sent, TRUE)
           /\ sent' = sent + Len(R.out)
           /\ log' = Append(log, e)
           /\ respawns' = IF e.m.kind \in {"StartNewGame", "QuitGame"} THEN <<>>
                          ELSE IF G.has /\ e.m.kind = "RespawnActor"
                          THEN Append(respawns, RespawnRecord(e.m, G.L, R))
                          ELSE respawns
           /\ freed' = IF e.m.kind \in {"StartNewGame", "QuitGame"} THEN {}
                       ELSE IF /\ G.has
                               /\ e.m.kind \in {"RemoveActor", "RespawnActor"}
                               /\ Contains(G.L.actors, e.m.actor)
                       THEN freed \cup {e.m.actor}
                       ELSE freed
    /\ UNCHANGED <<pc, elapsed, quiets, delta, passes, drains, otherVars>>

\* the end of handle_messages, and of Game::update
DrainDone ==
    /\ pc = "drain" /\ panicked = "no"
    /\ DrainFinished(queue)
    /\ pc' = "idle"
    /\ sent' = 0
    /\ log' = <<>>
    /\ respawns' = <<>>
    /\ passes' = <<>>
    /\ drains' = drains + 1
    /\ UNCHANGED <<running, hasLevel, levelVars, queue, elapsed, quiets, delta,
                   panicked, freed, otherVars>>

\* a quiet period: QuietTicks consecutive Game::update calls during which
\* no message is sent, no actor stands in a death zone and no projectile
\* flies; only the respawn countdowns move, and none of them elapses
QuietUpdates ==
    /\ pc = "idle" /\ running /\ panicked = "no"
    /\ queue = <<>>
    /\ quiets < MaxQuiet
    /\ \A i \in DOMAIN projectiles : ~projectiles[i].live
    /\ \A i \in 1..Len(respawn_list) : respawn_list[i].time_left = RESPAWN_TIME
    /\ ~Elapsed([time_left |-> CountdownAfter(RESPAWN_TIME, delta, QuietTicks)])
    /\ ~HudSyncFails(TheLevel)
    /\ ~IsMatchOver(leader_board)
    /\ respawn_list' = [i \in 1..Len(respawn_list) |->
          [respawn_list[i] EXCEPT
              !.time_left = CountdownAfter(RESPAWN_TIME, delta, QuietTicks)]]
    /\ elapsed' = elapsed + QuietTicks
    /\ drains' = drains + QuietTicks
    /\ quiets' = quiets + 1
    /\ UNCHANGED <<running, hasLevel, actors, weapons, items, projectiles,
                   player, leader_board, queue, pc, delta, panicked,
                   tickHistory, freed, otherVars>>

Next ==
    \/ MenuSend
    \/ EnvSend
    \/ GameUpdate
    \/ HandleMessage
    \/ DrainDone
    \/ QuietUpdates

Spec == Init /\ [][Next]_vars

(***************************************************************************)
(* The respawn scheduler alone: a respawn_list of entries as respawn_actor *)
(* makes them, and update_respawn called once per tick with a fixed delta. *)
(* fired records every spawn message sent as [name, tick].                 *)
(***************************************************************************)
\* 0.5, 1.0, 2.0 and 3.0 seconds, and the timestep of the game
RespawnDeltas ==
    {FixedTimestep, F32OfUnits(2^28), F32OfInt(1), F32OfInt(2), F32OfInt(3)}

BotEntry == NewRespawnEntry(NewActor(FALSE, BotKinds[1], BotKinds[1]))
PlayerEntry == NewRespawnEntry(NewActor(TRUE, PlayerName, ""))

RespawnLists == {<<BotEntry>>, <<PlayerEntry>>, <<BotEntry, PlayerEntry>>}

InitRespawn ==
    /\ running = TRUE
    /\ hasLevel = TRUE
    /\ actors = NoLevel.actors
    /\ weapons = NoLevel.weapons
    /\ items = NoLevel.items
    /\ projectiles = NoLevel.projectiles
    /\ player = NONE
    /\ respawn_list \in RespawnLists
    /\ leader_board = EmptyBoard
    /\ queue = <<>>
    /\ pc = "respawn"
    /\ elapsed = 0
    /\ quiets = 0
    /\ delta \in RespawnDeltas
    /\ panicked = "no"
    /\ sent = 0
    /\ log = <<>>
    /\ respawns = <<>>
    /\ passes = <<>>
    /\ drains = 0
    /\ freed = {}
    /\ fired = <<>>
    /\ rays = <<>>
    /\ contacts = <<>>
    /\ damaged = <<>>
    /\ last_call = NoCall

\* the name of the actor a spawn message re-creates
SpawnedName(m) == IF m.kind = "SpawnPlayer" THEN PlayerName ELSE m.sub

\* one call of update_respawn
RespawnTick ==
    /\ pc = "respawn"
    /\ elapsed < MaxRespawnTicks
    /\ respawn_list # <<>>
    /\ LET R == UpdateRespawn(TheLevel, delta)
       IN  /\ respawn_list' = R.respawn_list
           /\ fired' = fired \o [i \in 1..Len(R.out) |->
                                    [name |-> SpawnedName(R.out[i]), tick |-> elapsed + 1]]
    /\ elapsed' = elapsed + 1
    /\ UNCHANGED <<running, hasLevel, actors, weapons, items, projectiles, player,
                   leader_board, queue, pc, quiets, delta, panicked, tickHistory,
                   drains, freed, rays, contacts, damaged, last_call>>

NextRespawn == RespawnTick

SpecRespawn == InitRespawn /\ [][NextRespawn]_vars

(***************************************************************************)
(* One projectile alone: ArenaActors actors holding one weapon each, a     *)
(* projectile just fired from the weapon of the first, and one             *)
(* ProjectileContainer::update with the ray hits and contacts the physics  *)
(* reports.  damaged records the handles the damage loop ran over.         *)
(***************************************************************************)
RECURSIVE SeqsUpTo(_, _)
SeqsUpTo(S, n) ==
    IF n = 0 THEN {<<>>}
    ELSE SeqsUpTo(S, n - 1) \cup
         {Append(q, x) : q \in {r \in SeqsUpTo(S, n - 1) : Len(r) = n - 1}, x \in S}

\* the bodies a ray hit or a contact may report
ArenaBodies == (-1)..ArenaActors

ArenaActor(i) ==
    [NewActor(FALSE, "Bot", BotKinds[1]) EXCEPT
        !.live = TRUE, !.weapons = <<(<<i, 1>>)>>]

\* the weapon of the first actor has fired the projectile
ArenaWeapon(i, kind) ==
    [NewWeapon(kind, <<i, 1>>, TRUE) EXCEPT
        !.live = TRUE,
        !.ammo = IF i = 1 THEN @ - 1 ELSE @]

InitProjectile ==
    /\ running = TRUE
    /\ hasLevel = TRUE
    /\ actors = [i \in 1..ArenaActors |-> ArenaActor(i)]
    /\ \E kind \in {"PlasmaRifle", "Ak47"} :
          /\ weapons = [i \in 1..ArenaActors |-> ArenaWeapon(i, kind)]
          /\ projectiles = [i \in 1..ProjectileSlots |->
                IF i = 1
                THEN [BlankProjectile EXCEPT
                        !.live = TRUE, !.kind = DefinitionProjectile(kind),
                        !.owner = <<1, 1>>,
                        !.lifetime = DefinitionLifetime(DefinitionProjectile(kind))]
                ELSE BlankProjectile]
    /\ items = NoLevel.items
    /\ player = NONE
    /\ respawn_list = <<>>
    /\ leader_board = EmptyBoard
    /\ queue = <<>>
    /\ pc = "physics"
    /\ elapsed = 0
    /\ quiets = 0
    /\ delta = FixedTimestep
    /\ panicked = "no"
    /\ sent = 0
    /\ log = <<>>
    /\ respawns = <<>>
    /\ passes = <<>>
    /\ drains = 0
    /\ freed = {}
    /\ fired = <<>>
    /\ rays \in SeqsUpTo(ArenaBodies, MaxRayHits)
    /\ contacts \in SeqsUpTo(ArenaBodies \ {0}, MaxContacts)
    /\ damaged = <<>>
    /\ last_call = NoCall

\* ProjectileContainer::update with the reported ray hits and contacts
ProjectileTick ==
    /\ pc = "physics"
    /\ LET physics == [i \in DOMAIN projectiles |->
                          IF i = 1 THEN [rays |-> rays, contacts |-> contacts]
                          ELSE NoPhysics]
           R == ProjectileContainerUpdate(TheLevel, physics, delta)
       IN  /\ SetLevel(R)
           /\ panicked' = IF R.panicked THEN "Level::update" ELSE "no"
           /\ damaged' = HitActors(projectiles[1], rays, contacts, actors, weapons).hits
    /\ pc' = "updated"
    /\ elapsed' = elapsed + 1
    /\ UNCHANGED <<running, hasLevel, queue, quiets, delta, tickHistory, drains,
                   freed, fired, rays, contacts, last_call>>

NextProjectile == ProjectileTick

SpecProjectile == InitProjectile /\ [][NextProjectile]_vars

(***************************************************************************)
(* What the specifications of the single components share: a game with a   *)
(* level, an empty channel and no history.                                 *)
(***************************************************************************)
ComponentInit(at) ==
    /\ running = TRUE
    /\ hasLevel = TRUE
    /\ items = NoLevel.items
    /\ player = NONE
    /\ respawn_list = <<>>
    /\ leader_board = EmptyBoard
    /\ queue = <<>>
    /\ pc = at
    /\ elapsed = 0
    /\ quiets = 0
    /\ panicked = "no"
    /\ sent = 0
    /\ log = <<>>
    /\ respawns = <<>>
    /\ passes = <<>>
    /\ drains = 0
    /\ freed = {}
    /\ rays = <<>>
    /\ contacts = <<>>
    /\ damaged = <<>>

(***************************************************************************)
(* One Character alone (character.rs): a Character as Character::default   *)
(* makes it, in slot 1 of the actors, and any sequence of up to MaxCalls   *)
(* damage and heal calls.  last_call records the last call: its amount and *)
(* the Character before it.  elapsed counts the calls.  The calls on its   *)
(* weapons (add_weapon of a new handle, next_weapon, prev_weapon,          *)
(* set_current_weapon) are among them; last_call keeps the messages they   *)
(* sent as out.                                                            *)
(***************************************************************************)
\* the amounts passed to damage and to heal, of both signs
DamageAmounts == {-15, 5, 15, 30, 90}
HealAmounts == {-20, 20, 60}

InitCharacter ==
    /\ ComponentInit("character")
    /\ actors = [i \in 1..ActorSlots |->
                    IF i = 1 THEN [NewActor(TRUE, PlayerName, "") EXCEPT !.live = TRUE]
                    ELSE BlankActor]
    /\ weapons = NoLevel.weapons
    /\ projectiles = NoLevel.projectiles
    /\ delta = FixedTimestep
    /\ fired = <<>>
    /\ last_call = NoCall

\* one call of Character::damage
CharacterDamage ==
    /\ pc = "character"
    /\ elapsed < MaxCalls
    /\ \E x \in DamageAmounts :
          /\ actors' = [actors EXCEPT ![1] = Damage(@, x)]
          /\ last_call' = [op |-> "damage", amount |-> x, before |-> actors[1]]
    /\ elapsed' = elapsed + 1
    /\ UNCHANGED <<running, hasLevel, weapons, items, projectiles, player,
                   respawn_list, leader_board, queue, pc, quiets, delta, panicked,
                   tickHistory, drains, freed, fired, rays, contacts, damaged>>

\* one call of Character::heal
CharacterHeal ==
    /\ pc = "character"
    /\ elapsed < MaxCalls
    /\ \E x \in HealAmounts :
          /\ actors' = [actors EXCEPT ![1] = Heal(@, x)]
          /\ last_call' = [op |-> "heal", amount |-> x, before |-> actors[1]]
    /\ elapsed' = elapsed + 1
    /\ UNCHANGED <<running, hasLevel, weapons, items, projectiles, player,
                   respawn_list, leader_board, queue, pc, quiets, delta, panicked,
                   tickHistory, drains, freed, fired, rays, contacts, damaged>>

\* one call of Character::add_weapon, with the handle of a new weapon
CharacterAddWeapon ==
    /\ pc = "character"
    /\ elapsed < MaxCalls
    /\ LET w == <<Len(actors[1].weapons) + 1, 1>>
           R == AddWeapon(TheLevel, <<1, 1>>, w)
       IN  /\ actors' = R.actors
           /\ last_call' = [op |-> "add_weapon", amount |-> w, before |-> actors[1],
                            out |-> R.out]
    /\ elapsed' = elapsed + 1
    /\ UNCHANGED <<running, hasLevel, weapons, items, projectiles, player,
                   respawn_list, leader_board, queue, pc, quiets, delta, panicked,
                   tickHistory, drains, freed, fired, rays, contacts, damaged>>

\* the call r of a weapon switch, recorded as op with argument i
WeaponSwitchCall(op, i, r) ==
    /\ pc = "character"
    /\ elapsed < MaxCalls
    /\ actors' = [actors EXCEPT ![1] = r.c]
    /\ last_call' = [op |-> op, amount |-> i, before |-> actors[1], out |-> r.out]
    /\ elapsed' = elapsed + 1
    /\ UNCHANGED <<running, hasLevel, weapons, items, projectiles, player,
                   respawn_list, leader_board, queue, pc, quiets, delta, panicked,
                   tickHistory, drains, freed, fired, rays, contacts, damaged>>

\* one call of Character::next_weapon
CharacterNextWeapon == WeaponSwitchCall("next_weapon", 0, NextWeaponOf(actors[1]))

\* one call of Character::prev_weapon
CharacterPrevWeapon == WeaponSwitchCall("prev_weapon", 0, PrevWeapon(actors[1]))

\* one call of Character::set_current_weapon, with any index
CharacterSetCurrentWeapon ==
    \E i \in 0..MaxCalls :
        WeaponSwitchCall("set_current_weapon", i, SetCurrentWeapon(actors[1], i))

NextCharacter ==
    \/ CharacterDamage
    \/ CharacterHeal
    \/ CharacterAddWeapon
    \/ CharacterNextWeapon
    \/ CharacterPrevWeapon
    \/ CharacterSetCurrentWeapon

SpecCharacter == InitCharacter /\ [][NextCharacter]_vars

(***************************************************************************)
(* One Weapon alone (weapon.rs): a weapon in slot 1 of the weapons with up *)
(* to MaxRounds rounds left, game time advancing by delta per tick         *)
(* (elapsed counts the ticks, and last_shot_time is the tick of the last   *)
(* shot), and try_shoot and add_ammo called at any tick.  fired keeps the  *)
(* ticks of the last two successful shots, and last_call the last call:    *)
(* the weapon before it, the tick, the value returned and the sounds sent. *)
(***************************************************************************)
\* the lengths of a tick: the fixed timestep and 0.1 as an f32
WeaponDeltas == {FixedTimestep, F32OfUnits(53687092)}

InitWeapon ==
    /\ ComponentInit("weapon")
    /\ actors = NoLevel.actors
    /\ \E n \in 0..MaxRounds :
          weapons = [i \in 1..WeaponSlots |->
                       IF i = 1
                       THEN [NewWeapon("M4", NONE, TRUE) EXCEPT !.live = TRUE, !.ammo = n]
                       ELSE BlankWeapon]
    /\ projectiles = NoLevel.projectiles
    /\ delta \in WeaponDeltas
    /\ fired = <<>>
    /\ last_call = NoCall

\* game time advances by one tick
WeaponTick ==
    /\ pc = "weapon"
    /\ elapsed < MaxWeaponTicks
    /\ elapsed' = elapsed + 1
    /\ UNCHANGED <<running, hasLevel, levelVars, queue, pc, quiets, delta, panicked,
                   tickHistory, drains, freed, otherVars>>

\* one call of Weapon::try_shoot
WeaponTryShoot ==
    /\ pc = "weapon"
    /\ LET shot == TryShoot(weapons[1], elapsed, delta)
       IN  /\ weapons' = [weapons EXCEPT ![1] = shot.weapon]
           /\ last_call' = [op |-> "try_shoot", before |-> weapons[1], now |-> elapsed,
                            ok |-> shot.ok, sounds |-> shot.sounds]
           /\ fired' = IF ~shot.ok THEN fired
                       ELSE IF fired = <<>> THEN <<elapsed>>
                       ELSE <<fired[Len(fired)], elapsed>>
    /\ UNCHANGED <<running, hasLevel, actors, items, projectiles, player,
                   respawn_list, leader_board, queue, pc, elapsed, quiets, delta,
                   panicked, tickHistory, drains, freed, rays, contacts, damaged>>

\* one call of Weapon::add_ammo, with the 200 rounds of a picked up weapon
WeaponAddAmmo ==
    /\ pc = "weapon"
    /\ weapons[1].ammo + 200 <= MaxAmmo
    /\ weapons' = [weapons EXCEPT ![1].ammo = @ + 200]
    /\ last_call' = [op |-> "add_ammo", before |-> weapons[1], now |-> elapsed,
                     ok |-> TRUE, sounds |-> <<>>]
    /\ UNCHANGED <<running, hasLevel, actors, items, projectiles, player,
                   respawn_list, leader_board, queue, pc, elapsed, quiets, delta,
                   panicked, tickHistory, drains, freed, fired, rays, contacts, damaged>>

NextWeapon ==
    \/ WeaponTick
    \/ WeaponTryShoot
    \/ WeaponAddAmmo

SpecWeapon == InitWeapon /\ [][NextWeapon]_vars

(***************************************************************************)
(* Projectiles in flight (projectile.rs): the projectile of                *)
(* SpecProjectile, just created by the weapon of the first actor with the  *)
(* lifetime of its definition, in slot 1, alone or (with the long ticks)   *)
(* with one of every further actor's weapon in the slots after it, and one *)
(* ProjectileContainer::update per tick for as long as one of them is in   *)
(* the pool.  In every tick the      *)
(* physics reports any of FlightRays and FlightContacts for each of them.  *)
(* Between two ticks Level::remove_weapon may free a weapon.  elapsed      *)
(* counts the updates that returned; last_call records the last one: the   *)
(* first projectile before it, whether it was killed and the actors it     *)
(* hit, and the pools and the physics report the update started from.  An  *)
(* update that panicked is recorded with op "panic".                       *)
(***************************************************************************)
\* the lengths of a tick: the fixed timestep, 1 s and 3 s
FlightDeltas == {FixedTimestep, F32OfInt(1), F32OfInt(3)}

\* what a ray cast reports: nothing, static geometry, the body of another
\* actor, the owner's body, a body of no actor
FlightRays == {<<>>, <<0>>, <<2>>, <<1>>, <<-1>>}

\* the contacts of the projectile's body: none, another actor, the owner, a
\* body of no actor
FlightContacts == {<<>>, <<2>>, <<1>>, <<-1>>}

InitFlight ==
    /\ ComponentInit("flight")
    /\ actors = [i \in 1..ArenaActors |-> ArenaActor(i)]
    /\ \E kind \in {"PlasmaRifle", "Ak47"} :
          /\ weapons = [i \in 1..ArenaActors |-> ArenaWeapon(i, kind)]
          /\ \E n \in 1..FlightSlots :
                /\ projectiles = [i \in 1..FlightSlots |->
                      IF i <= n
                      THEN [BlankProjectile EXCEPT
                              !.live = TRUE, !.kind = DefinitionProjectile(kind),
                              !.owner = <<i, 1>>,
                              !.lifetime = DefinitionLifetime(DefinitionProjectile(kind))]
                      ELSE BlankProjectile]
                /\ delta \in IF n = 1 THEN FlightDeltas ELSE FlightDeltas \ {FixedTimestep}
    /\ fired = <<>>
    /\ last_call = NoCall

\* what the physics may report for the projectiles of the pool: anything for
\* the first projectile in flight, nothing or a hit on static geometry for
\* the others, nothing for a free slot
FlightPhysics ==
    {ph \in [DOMAIN projectiles -> [rays : FlightRays, contacts : FlightContacts]] :
        \A i \in DOMAIN projectiles :
            /\ ~projectiles[i].live => ph[i] = NoPhysics
            /\ i > 1 => ph[i].contacts = <<>> /\ ph[i].rays \in {<<>>, <<0>>}}

\* ProjectileContainer::update of one tick of the flight
FlightTick ==
    /\ pc = "flight"
    /\ panicked = "no"
    /\ \E i \in DOMAIN projectiles : projectiles[i].live
    /\ elapsed < MaxFlightTicks
    /\ \E physics \in FlightPhysics :
          LET R == ProjectileContainerUpdate(TheLevel, physics, delta)
              h == HitActors(projectiles[1], physics[1].rays, physics[1].contacts,
                             actors, weapons)
          IN  /\ SetLevel(R)
              /\ panicked' = IF R.panicked THEN "Level::update" ELSE "no"
              /\ last_call' = [op |-> IF R.panicked THEN "panic" ELSE "update",
                               before |-> projectiles[1],
                               killed |-> h.killed, hits |-> h.hits,
                               pool |-> projectiles, physics |-> physics,
                               actors |-> actors, weapons |-> weapons]
          /\ elapsed' = IF R.panicked THEN elapsed ELSE elapsed + 1
    /\ UNCHANGED <<running, hasLevel, queue, pc, quiets, delta, tickHistory, drains,
                   freed, fired, rays, contacts, damaged>>

\* Level::remove_weapon of the weapon that fired a projectile in flight
FlightRemoveWeapon ==
    /\ pc = "flight"
    /\ panicked = "no"
    /\ \E i \in DOMAIN projectiles :
          /\ projectiles[i].live
          /\ Contains(weapons, projectiles[i].owner)
          /\ SetLevel(RemoveWeapon(TheLevel, projectiles[i].owner))
    /\ UNCHANGED <<running, hasLevel, queue, pc, elapsed, quiets, delta, panicked,
                   tickHistory, drains, freed, otherVars>>

NextFlight ==
    \/ FlightTick
    \/ FlightRemoveWeapon

SpecFlight == InitFlight /\ [][NextFlight]_vars

(***************************************************************************)
(* find_suitable_spawn_point alone (level.rs).  Spawn points and actors    *)
(* stand on a line at whole coordinates, so that the distance of two of    *)
(* them is the difference of their coordinates and every sum of distances  *)
(* is exact in f32.  last_call holds the input: the positions of the spawn *)
(* points, the positions of the actors actors.iter() yields (the live      *)
(* ones), and the index rand::thread_rng().gen_range draws; and after the  *)
(* call the index returned, counted from 0 as in the code.                 *)
(***************************************************************************)
\* sum_distance of a spawn point at pt: the inner loop
RECURSIVE SumDistance(_, _)
SumDistance(pt, positions) ==
    IF positions = <<>> THEN 0
    ELSE Abs(pt - Head(positions)) + SumDistance(pt, Tail(positions))

\* a loop that keeps the index it started with
KeepFirstIndex(points, positions, i, index, max_distance) == index

\* the outer loop from spawn point i on (counted from 1), with the index and
\* max_distance so far; -1 stands for -f32::MAX, as it is below every sum
RECURSIVE BestSpawnPoint(_, _, _, _, _)
BestSpawnPoint(points, positions, i, index, max_distance) ==
    IF i > Len(points) THEN index
    ELSE LET sum_distance == SumDistance(points[i], positions)
         IN  IF sum_distance > max_distance
             THEN BestSpawnPoint(points, positions, i + 1, i - 1, sum_distance)
             ELSE BestSpawnPoint(points, positions, i + 1, index, max_distance)

\* find_suitable_spawn_point, with the index the random generator draws
FindSuitableSpawnPoint(points, positions, random) ==
    BestSpawnPoint(points, positions, 1, random, -1)

\* the inputs: one to MaxSpawnPoints spawn points, up to MaxStanding actors
SpawnInputs ==
    {[op |-> "input", points |-> ps, positions |-> as, random |-> r] :
        ps \in SeqsUpTo(0..MaxCoord, MaxSpawnPoints) \ {<<>>},
        as \in SeqsUpTo(0..MaxCoord, MaxStanding),
        r \in 0..(MaxSpawnPoints - 1)}

\* the inputs of a level with no spawn points: there is no index to draw
NoSpawnPointInputs ==
    {[op |-> "input", points |-> <<>>, positions |-> as, random |-> 0] :
        as \in SeqsUpTo(0..MaxCoord, MaxStanding)}

InitSpawn ==
    /\ ComponentInit("spawn")
    /\ actors = NoLevel.actors
    /\ weapons = NoLevel.weapons
    /\ projectiles = NoLevel.projectiles
    /\ delta = FixedTimestep
    /\ fired = <<>>
    /\ last_call \in {in \in SpawnInputs : in.random < Len(in.points)}
                        \cup NoSpawnPointInputs

\* the call of find_suitable_spawn_point on the input.  Its first statement
\* is gen_range(0..spawn_points.len()), which panics on an empty range.
FindSpawnPoint ==
    /\ pc = "spawn"
    /\ pc' = "spawned"
    /\ IF last_call.points = <<>>
       THEN /\ panicked' = "gen_range"
            /\ last_call' = [last_call EXCEPT !.op = "gen_range"]
       ELSE /\ panicked' = panicked
            /\ last_call' = [op |-> "find_suitable_spawn_point",
                             points |-> last_call.points,
                             positions |-> last_call.positions,
                             random |-> last_call.random,
                             index |-> FindSuitableSpawnPoint(last_call.points,
                                           last_call.positions, last_call.random)]
    /\ UNCHANGED <<running, hasLevel, levelVars, queue, elapsed, quiets, delta,
                   tickHistory, drains, freed, fired, rays, contacts, damaged>>

\* Vector3::default()
Origin == [x |-> 0, lift |-> 0]

\* spawn_position of spawn_player and spawn_bot: spawn_points.get(index)
\* or the default; the player is lifted by 1.5 (lift counts halves)
SpawnPosition(points, index, isPlayer) ==
    IF index < Len(points)
    THEN [x |-> points[index + 1], lift |-> IF isPlayer THEN 3 ELSE 0]
    ELSE Origin

\* the rest of spawn_player or spawn_bot, after find_suitable_spawn_point
\* has returned: the actor is created at spawn_position with its weapons
SpawnAtPoint ==
    /\ pc = "spawned" /\ panicked = "no"
    /\ pc' = "placed"
    /\ \E isPlayer \in BOOLEAN :
          LET R == IF isPlayer THEN SpawnPlayer(TheLevel)
                   ELSE AddBot(TheLevel, BotKinds[1])
          IN  /\ SetLevel(R)
              /\ queue' = Enqueued(R.out, sent, FALSE)
              /\ sent' = sent + Len(R.out)
              /\ last_call' =
                    [op |-> IF isPlayer THEN "spawn_player" ELSE "spawn_bot",
                     points |-> last_call.points,
                     positions |-> last_call.positions,
                     random |-> last_call.random,
                     index |-> last_call.index,
                     position |-> SpawnPosition(last_call.points,
                                                last_call.index, isPlayer)]
    /\ UNCHANGED <<running, hasLevel, elapsed, quiets, delta, panicked, log,
                   respawns, passes, drains, freed, fired, rays, contacts,
                   damaged>>

NextSpawn ==
    \/ FindSpawnPoint
    \/ SpawnAtPoint

SpecSpawn == InitSpawn /\ [][NextSpawn]_vars

(***************************************************************************)
(* The LeaderBoard alone (leader_board.rs): an empty board and any         *)
(* sequence of up to MaxBoardCalls calls of add_frag, add_death and        *)
(* remove_actor with the names of BoardNames, and highest_personal_score   *)
(* at any time.  fired keeps the calls made, in order; last_call the last  *)
(* call and, for highest_personal_score, its result.  The HashMap yields   *)
(* its entries in any order.                                               *)
(***************************************************************************)
BoardNames == {PlayerName, BotKinds[1], BotKinds[2]}

\* the orders in which a HashMap with the keys S may yield them
IterationOrders(S) ==
    {s \in [1..Cardinality(S) -> S] : \A i, j \in DOMAIN s : s[i] = s[j] => i = j}

InitBoard ==
    /\ ComponentInit("board")
    /\ actors = NoLevel.actors
    /\ weapons = NoLevel.weapons
    /\ projectiles = NoLevel.projectiles
    /\ delta = FixedTimestep
    /\ fired = <<>>
    /\ last_call = NoCall

\* the call op(name), which makes the board lb
BoardCall(op, name, lb) ==
    /\ pc = "board"
    /\ Len(fired) < MaxBoardCalls
    /\ leader_board' = lb
    /\ fired' = Append(fired, [op |-> op, name |-> name])
    /\ last_call' = [op |-> op, name |-> name]
    /\ UNCHANGED <<running, hasLevel, actors, weapons, items, projectiles, player,
                   respawn_list, queue, pc, elapsed, quiets, delta, panicked,
                   tickHistory, drains, freed, rays, contacts, damaged>>

\* one call of LeaderBoard::add_frag
BoardAddFrag ==
    \E name \in BoardNames : BoardCall("add_frag", name, AddFrag(leader_board, name))

\* one call of LeaderBoard::add_death
BoardAddDeath ==
    \E name \in BoardNames : BoardCall("add_death", name, AddDeath(leader_board, name))

\* one call of LeaderBoard::remove_actor
BoardRemove ==
    \E name \in BoardNames :
        BoardCall("remove_actor", name, BoardRemoveActor(leader_board, name))

\* one call of LeaderBoard::highest_personal_score, with any except
BoardHighest ==
    /\ pc = "board"
    /\ \E except \in {<<>>} \cup {<<n>> : n \in BoardNames},
          order \in IterationOrders(DOMAIN leader_board) :
          last_call' = [op |-> "highest_personal_score", except |-> except,
                        result |-> HighestPersonalScore(leader_board, except,
                                                        order, 1, <<>>)]
    /\ UNCHANGED <<running, hasLevel, levelVars, queue, pc, elapsed, quiets, delta,
                   panicked, tickHistory, drains, freed, fired, rays, contacts,
                   damaged>>

NextBoard ==
    \/ BoardAddFrag
    \/ BoardAddDeath
    \/ BoardRemove
    \/ BoardHighest

SpecBoard == InitBoard /\ [][NextBoard]_vars

(***************************************************************************)
(* Game::load_game alone (main.rs).  The menu is visible (pc = "menu"), a  *)
(* session is running or not, the level of a running session handles up to *)
(* MaxSessionSteps messages, and then the Load Game button is pressed.     *)
(* What load_game does depends on the save file: LoadStages names the      *)
(* stage that fails, or "ok".  A load that succeeds hides the menu (pc =   *)
(* "playing").  last_call records the stage and the session before the     *)
(* call.                                                                   *)
(***************************************************************************)
\* the stage at which load_game fails: Visitor::load_binary, the visit of
\* the engine, the visit of the level; or none
LoadStages == {"file", "engine", "level", "ok"}

\* Game::destroy_level
DestroyLevel == [has |-> FALSE, L |-> NoLevel]

\* what a save file may hold as the level: none, or that of a new game
SavedLevels == {DestroyLevel, [has |-> TRUE, L |-> NewLevel]}

\* what Game.level is after a visit that failed on the way: the None that
\* destroy_level left, or a Level::default that was not read to its end
PartLoadedLevels == {DestroyLevel, [has |-> TRUE, L |-> NoLevel]}

\* Game::load_game on the session `session` with the menu visible: the level
\* afterwards and whether the menu is still visible
LoadGame(stage, saved, part, session) ==
    IF stage = "file" THEN [level |-> session, menu |-> TRUE]
    ELSE IF stage = "engine" THEN [level |-> DestroyLevel, menu |-> TRUE]
    ELSE IF stage = "level" THEN [level |-> part, menu |-> TRUE]
    ELSE [level |-> saved, menu |-> FALSE]

InitLoad ==
    /\ ComponentInit("menu")
    /\ hasLevel = TRUE
    /\ actors = NewLevel.actors
    /\ weapons = NewLevel.weapons
    /\ projectiles = NewLevel.projectiles
    /\ delta = FixedTimestep
    /\ fired = <<>>
    /\ last_call = NoCall

\* the level of the session handles a message
SessionMessage ==
    /\ pc = "menu" /\ hasLevel
    /\ elapsed < MaxSessionSteps
    /\ \E m \in EnvMessages :
          LET R == LevelHandle(TheLevel, m, elapsed, delta)
          IN  /\ ~Stopped(R)
              /\ SetLevel(R)
    /\ elapsed' = elapsed + 1
    /\ last_call' = NoCall
    /\ UNCHANGED <<running, hasLevel, queue, pc, quiets, delta, panicked,
                   tickHistory, drains, freed, fired, rays, contacts, damaged>>

\* the Quit Game button: Game::destroy_level
SessionQuit ==
    /\ pc = "menu" /\ hasLevel
    /\ hasLevel' = DestroyLevel.has
    /\ SetLevel(DestroyLevel.L)
    /\ last_call' = NoCall
    /\ UNCHANGED <<running, queue, pc, elapsed, quiets, delta, panicked,
                   tickHistory, drains, freed, fired, rays, contacts, damaged>>

\* the Load Game button: Game::load_game
MenuLoadGame ==
    /\ pc = "menu"
    /\ \E stage \in LoadStages, saved \in SavedLevels, part \in PartLoadedLevels :
          LET R == LoadGame(stage, saved, part, [has |-> hasLevel, L |-> TheLevel])
          IN  /\ hasLevel' = R.level.has
              /\ SetLevel(R.level.L)
              /\ pc' = IF R.menu THEN "menu" ELSE "playing"
              /\ last_call' = [op |-> "load_game", stage |-> stage,
                               before |-> <<hasLevel, levelVars>>]
    /\ UNCHANGED <<running, queue, elapsed, quiets, delta, panicked,
                   tickHistory, drains, freed, fired, rays, contacts, damaged>>

NextLoad ==
    \/ SessionMessage
    \/ SessionQuit
    \/ MenuLoadGame

SpecLoad == InitLoad /\ [][NextLoad]_vars

(***************************************************************************)
(* A projectile saved and loaded (projectile.rs, impl Visit).  Here the    *)
(* projectile has all the fields of the struct, with positions and vectors *)
(* along one axis (0 is Vec3::ZERO), angles in halves and velocities in    *)
(* hundredths.  It flies for up to MaxSaveTicks updates that hit nothing,  *)
(* is written to a save, is read back into Projectile::default(), and has  *)
(* its first update.  The position of its body or model belongs to the     *)
(* scene, which the engine saves and restores itself.  last_call holds the *)
(* projectile, the position the scene reports, the save, the projectile as *)
(* it was saved and as it was loaded, and the ray of the last update.      *)
(***************************************************************************)
\* ProjectileKind::id
ProjectileKindId(kind) == IF kind = "Plasma" THEN 0 ELSE 1

\* ProjectileKind::new (ids other than 0 and 1 are an Err)
ProjectileKindNew(id) == IF id = 0 THEN "Plasma" ELSE "Bullet"

\* impl Default for Projectile
DefaultProjectile ==
    [kind |-> "Plasma", model |-> NONE, body |-> NONE, dir |-> 0,
     initial_pos |-> 0, lifetime |-> F32OfInt(0), rotation_angle |-> 0,
     owner |-> NONE, initial_velocity |-> 0, last_position |-> 0]

\* Projectile::new: a plasma ball has a body, a bullet has none
FullProjectile(kind, dir, position, owner, initial_velocity) ==
    [DefaultProjectile EXCEPT
        !.lifetime = DefinitionLifetime(kind),
        !.body = IF kind = "Plasma" THEN <<1, 1>> ELSE NONE,
        !.initial_velocity = initial_velocity,
        !.dir = dir,
        !.kind = kind,
        !.model = <<1, 1>>,
        !.initial_pos = position,
        !.last_position = position,
        !.owner = owner]

\* impl Visit for Projectile, writing: the fields of the region
ProjectileVisitWrite(p) ==
    [KindId |-> ProjectileKindId(p.kind), Lifetime |-> p.lifetime,
     Direction |-> p.dir, Model |-> p.model, Body |-> p.body,
     RotationAngle |-> p.rotation_angle,
     InitialVelocity |-> p.initial_velocity, Owner |-> p.owner]

\* impl Visit for Projectile, reading into p
ProjectileVisitRead(p, file) ==
    [p EXCEPT !.kind = ProjectileKindNew(file.KindId),
              !.lifetime = file.Lifetime,
              !.dir = file.Direction,
              !.model = file.Model,
              !.body = file.Body,
              !.rotation_angle = file.RotationAngle,
              !.initial_velocity = file.InitialVelocity,
              !.owner = file.Owner]

\* Ray::from_two_points: no ray between two equal points
RayFromTwoPoints(begin, end) ==
    IF begin = end THEN <<>> ELSE <<[origin |-> begin, end |-> end]>>

\* Projectile::update where the ray and the body hit nothing
FullProjectileUpdate(p, position, d) ==
    [p EXCEPT !.rotation_angle = @ + 3,
              !.initial_velocity = @ - (@ * 15) \div 100,
              !.lifetime = F32Sub(@, d),
              !.last_position = position]

Coordinates == 0..MaxCoord

InitSave ==
    /\ ComponentInit("save")
    /\ actors = NoLevel.actors
    /\ weapons = NoLevel.weapons
    /\ projectiles = NoLevel.projectiles
    /\ delta = FixedTimestep
    /\ fired = <<>>
    /\ \E kind \in {"Plasma", "Bullet"}, dir \in {-1, 1}, position \in Coordinates,
          owner \in {<<1, 1>>, <<2, 1>>}, velocity \in {0, 100} :
          last_call = [op |-> "new",
                       projectile |-> FullProjectile(kind, dir, position, owner, velocity),
                       position |-> position, ray |-> <<>>]

\* the update of one frame: the scene reports a position, the ray is cast
\* from the position of the last frame, nothing is hit
SaveUpdate(at, to) ==
    /\ pc = at
    /\ pc' = to
    /\ \E position \in Coordinates :
          last_call' = [last_call EXCEPT
              !.op = "update",
              !.position = position,
              !.ray = RayFromTwoPoints(last_call.projectile.last_position, position),
              !.projectile = FullProjectileUpdate(@, position, delta)]
    /\ elapsed' = elapsed + 1
    /\ UNCHANGED <<running, hasLevel, levelVars, queue, quiets, delta,
                   panicked, tickHistory, drains, freed, fired, rays, contacts,
                   damaged>>

\* an update before the save
UpdateBeforeSave ==
    /\ elapsed < MaxSaveTicks
    /\ SaveUpdate("save", "save")

\* the projectile is visited by a writing visitor
SaveProjectile ==
    /\ pc = "save"
    /\ pc' = "saved"
    /\ last_call' = [op |-> "save", projectile |-> last_call.projectile,
                     position |-> last_call.position,
                     file |-> ProjectileVisitWrite(last_call.projectile),
                     saved |-> last_call.projectile]
    /\ UNCHANGED <<running, hasLevel, levelVars, queue, elapsed, quiets, delta,
                   panicked, tickHistory, drains, freed, fired, rays, contacts,
                   damaged>>

\* a default projectile is visited by a reading visitor
LoadProjectile ==
    /\ pc = "saved"
    /\ pc' = "loaded"
    /\ LET p == ProjectileVisitRead(DefaultProjectile, last_call.file)
       IN  last_call' = [op |-> "load", projectile |-> p,
                         position |-> last_call.position,
                         file |-> last_call.file, saved |-> last_call.saved,
                         loaded |-> p, ray |-> <<>>]
    /\ UNCHANGED <<running, hasLevel, levelVars, queue, elapsed, quiets, delta,
                   panicked, tickHistory, drains, freed, fired, rays, contacts,
                   damaged>>

\* the first update after the load
UpdateAfterLoad == SaveUpdate("loaded", "updated")

NextSave ==
    \/ UpdateBeforeSave
    \/ SaveProjectile
    \/ LoadProjectile
    \/ UpdateAfterLoad

SpecSave == InitSave /\ [][NextSave]_vars

(***************************************************************************)
(* One drain alone: handle_messages is entered in a new game with any      *)
(* queue of up to MaxDrainQueue messages of the menu, of Level::update, of  *)
(* the actors and of the handlers, and its loop runs on: the body of the   *)
(* `while let Ok(message) = try_recv()` loop and its exit are sequential    *)
(* code of one Game::update call, which go on until the call returns.      *)
(***************************************************************************)
\* the messages a drain may find in the channel
DrainMessages ==
    EnvMessages
    \cup {Msg(k) : k \in MenuKinds \cup {"SpawnPlayer", "EndMatch", "AddNotification",
                                         "PlaySound"}}
    \cup {SpawnBotMsg(BotKinds[1])}

InitDrain ==
    /\ running = TRUE
    /\ hasLevel = TRUE
    /\ actors = NewLevel.actors
    /\ weapons = NewLevel.weapons
    /\ items = NewLevel.items
    /\ projectiles = NewLevel.projectiles
    /\ player = NewLevel.player
    /\ respawn_list = NewLevel.respawn_list
    /\ leader_board = NewLevel.leader_board
    /\ \E ms \in SeqsUpTo(DrainMessages, MaxDrainQueue) :
          /\ queue = Enqueued(ms, 0, FALSE)
          /\ sent = Len(ms)
    /\ pc = "drain"
    /\ elapsed = 1
    /\ quiets = 0
    /\ delta = FixedTimestep
    /\ panicked = "no"
    /\ log = <<>>
    /\ respawns = <<>>
    /\ passes = <<>>
    /\ drains = 0
    /\ freed = {}
    /\ fired = <<>>
    /\ rays = <<>>
    /\ contacts = <<>>
    /\ damaged = <<>>
    /\ last_call = NoCall

NextDrain ==
    \/ HandleMessage
    \/ DrainDone

\* the handler of the next message would need a pool slot beyond the bounds
\* of the model
HandlerOutOfBounds ==
    /\ queue # <<>>
    /\ LET e == Received(queue)
           G == GameHandle(e.m)
           R == IF G.has THEN LevelHandle(G.L, e.m, elapsed, delta) ELSE G.L
       IN  R.over

\* the condition under which the loop of handle_messages takes a message
HandleEnabled ==
    /\ InHandleMessages /\ panicked = "no"
    /\ ~DrainFinished(queue)
    /\ ~HandlerOutOfBounds

\* handle_messages is one loop that runs on the game's thread until
\* try_recv fails: a step of it that can be taken is taken.  The first
\* fairness condition is WF_vars(HandleMessage) with the enabling condition
\* of HandleMessage written out.
SpecDrain ==
    /\ InitDrain /\ [][NextDrain]_vars
    /\ ([]<>(~HandleEnabled) \/ []<><<HandleMessage>>_vars)
    /\ WF_vars(DrainDone)

(***************************************************************************)
(* The weapons of the actors of a new level.  Level::new has spawned the   *)
(* bots and the player and the channel holds the messages it sent.  The    *)
(* actors call next_weapon, prev_weapon and set_current_weapon between     *)
(* two drains (Player and Bot, on input), weapons are picked up through    *)
(* GiveNewWeapon messages, whose handler calls add_weapon, and the drains  *)
(* apply the ShowWeapon messages.  elapsed counts the calls.               *)
(***************************************************************************)
InitLoadout ==
    /\ running = TRUE
    /\ hasLevel = TRUE
    /\ actors = NewLevel.actors
    /\ weapons = NewLevel.weapons
    /\ items = NewLevel.items
    /\ projectiles = NewLevel.projectiles
    /\ player = NewLevel.player
    /\ respawn_list = NewLevel.respawn_list
    /\ leader_board = NewLevel.leader_board
    /\ queue = Enqueued(NewLevel.out, 0, TRUE)
    /\ sent = Len(NewLevel.out)
    /\ pc = "drain"
    /\ elapsed = 0
    /\ quiets = 0
    /\ delta = FixedTimestep
    /\ panicked = "no"
    /\ log = <<>>
    /\ respawns = <<>>
    /\ passes = <<>>
    /\ drains = 0
    /\ freed = {}
    /\ fired = <<>>
    /\ rays = <<>>
    /\ contacts = <<>>
    /\ damaged = <<>>
    /\ last_call = NoCall

\* the call r of a weapon switch on the actor in slot a: the Character
\* afterwards is stored and the messages it sent are in the channel
LoadoutCall(a, r) ==
    /\ pc = "idle" /\ panicked = "no"
    /\ elapsed < MaxLoadoutCalls
    /\ actors[a].live
    /\ actors' = [actors EXCEPT ![a] = r.c]
    /\ queue' = queue \o Enqueued(r.out, sent, FALSE)
    /\ sent' = sent + Len(r.out)
    /\ elapsed' = elapsed + 1
    /\ UNCHANGED <<running, hasLevel, weapons, items, projectiles, player,
                   respawn_list, leader_board, pc, quiets, delta, panicked,
                   log, respawns, passes, drains, freed, otherVars>>

LoadoutNextWeapon ==
    \E a \in DOMAIN actors : LoadoutCall(a, NextWeaponOf(actors[a]))

LoadoutPrevWeapon ==
    \E a \in DOMAIN actors : LoadoutCall(a, PrevWeapon(actors[a]))

\* set_current_weapon with any index, the first index out of range included
LoadoutSetCurrentWeapon ==
    \E a \in DOMAIN actors : \E i \in 0..Len(actors[a].weapons) :
        LoadoutCall(a, SetCurrentWeapon(actors[a], i))

\* an actor picks up a weapon: the GiveNewWeapon message is sent
LoadoutPickUp ==
    \E a \in DOMAIN actors :
        LoadoutCall(a, [c |-> actors[a],
                        out |-> <<[Msg("GiveNewWeapon") EXCEPT
                                      !.actor = <<a, actors[a].gen>>,
                                      !.sub = "PlasmaRifle"]>>])

\* Game::update goes from Level::update to handle_messages
LoadoutBeginDrain ==
    /\ pc = "idle" /\ panicked = "no"
    /\ queue # <<>>
    /\ pc' = "drain"
    /\ UNCHANGED <<running, hasLevel, levelVars, queue, elapsed, quiets, delta,
                   panicked, tickHistory, drains, freed, otherVars>>

NextLoadout ==
    \/ LoadoutNextWeapon
    \/ LoadoutPrevWeapon
    \/ LoadoutSetCurrentWeapon
    \/ LoadoutPickUp
    \/ LoadoutBeginDrain
    \/ HandleMessage
    \/ DrainDone

SpecLoadout == InitLoadout /\ [][NextLoadout]_vars

(***************************************************************************)
(* Properties of the message queue.                                        *)
(***************************************************************************)
SeqNumbers(q) == {q[i].seq : i \in 1..Len(q)}

\* C1: in every tick handle_messages drains the queue to empty exactly once
\* and every message enqueued is handled exactly once: no sequence number is
\* handled twice, every message sent in the tick is either handled or still
\* in the queue, after a drain nothing is left over, and the number of
\* completed drains equals the number of completed Game::update calls.
DrainedExactlyOnce ==
    /\ \A i, j \in 1..Len(log) : log[i].seq = log[j].seq => i = j
    /\ \A i, j \in 1..Len(queue) : queue[i].seq = queue[j].seq => i = j
    /\ SeqNumbers(log) \cap SeqNumbers(queue) = {}
    /\ SeqNumbers(log) \cup SeqNumbers(queue) = 1..sent
    /\ drains = IF pc = "drain" THEN elapsed - 1 ELSE elapsed

\* a drain of a running level has handled several messages and emptied the queue
DrainedWitness ==
    /\ pc = "drain" /\ hasLevel /\ queue = <<>>
    /\ Len(log) >= 3
    /\ SeqNumbers(log) = 1..sent

\* C9: a message a handler enqueues during the drain is handled in that same
\* drain: between two ticks the queue never holds a message sent by a handler.
LateHandledInSameDrain ==
    pc = "idle" => \A i \in 1..Len(queue) : ~queue[i].late

\* a drain has ended having handled a message that a handler of the same
\* drain enqueued
LateHandledWitness ==
    /\ pc = "drain" /\ queue = <<>>
    /\ \E i \in 1..Len(log) : log[i].late

\* C10: messages are handled in the order they were enqueued: the k-th
\* message handled in a tick is the k-th message sent in it (each handler is
\* one step, so it has completed before the next one starts).
HandledInSendOrder ==
    \A i \in 1..Len(log) : log[i].seq = i

\* two messages sent before the drain and one sent by a handler were handled
FifoWitness ==
    /\ Len(log) >= 3
    /\ ~log[1].late /\ ~log[2].late
    /\ \E i \in 1..Len(log) : log[i].late
    /\ log[1].m # log[2].m

(***************************************************************************)
(* Properties of the Level handlers.                                       *)
(***************************************************************************)
\* the handlers C2 names
StaleSafeHandlers ==
    {"GiveNewWeapon", "RemoveActor", "GiveItem", "PickUpItem", "ShootWeapon",
     "ShowWeapon", "DamageActor", "RespawnActor"}

\* C2: no Level handler fails on a stale handle, whatever the order of the
\* messages: the process never panics inside one of the named handlers.
HandlersNeverFail == panicked \notin StaleSafeHandlers

\* C3: every actor handle remove_actor has freed stays invalid afterwards,
\* also once its slot has been reused: contains is false for it, so an actor
\* spawned later (a respawned one too) never carries a freed handle.
FreedHandlesStayInvalid ==
    \A h \in freed : ~Contains(actors, h)

\* the slot of a freed handle is live again, under a newer generation
SlotReusedWitness ==
    \E h \in freed : actors[h[1]].live /\ actors[h[1]].gen > h[2]

RECURSIVE SumOf(_, _)
SumOf(rs, field) ==
    IF rs = <<>> THEN 0 ELSE Head(rs)[field] + SumOf(Tail(rs), field)

\* the records of the RespawnActor messages of this tick that name actor h
RespawnsOf(h) == SelectSeq(respawns, LAMBDA r : r.actor = h)

\* C6: the RespawnActor messages handled in one tick for the same actor, the
\* first of which finds it alive, count exactly one death on the leaderboard
\* and append exactly one respawn entry.
OneDeathPerActor ==
    \A h \in {respawns[i].actor : i \in 1..Len(respawns)} :
        RespawnsOf(h)[1].live =>
            /\ SumOf(RespawnsOf(h), "deaths") = 1
            /\ SumOf(RespawnsOf(h), "entries") = 1

\* two or more RespawnActor messages for one live actor were handled in a tick
SeveralRespawnsWitness ==
    \E h \in {respawns[i].actor : i \in 1..Len(respawns)} :
        /\ RespawnsOf(h)[1].live
        /\ Len(RespawnsOf(h)) >= 2

\* the step that handles a RespawnActor message for an actor that is alive
HandlesRespawnOfLive ==
    /\ pc = "drain" /\ hasLevel /\ queue # <<>>
    /\ Head(queue).m.kind = "RespawnActor"
    /\ Contains(actors, Head(queue).m.actor)
    /\ Len(log') = Len(log) + 1

DeathsOf(lb, name) == IF name \in DOMAIN lb THEN lb[name].deaths ELSE 0

\* C7: handling RespawnActor for a live actor holding n weapons adds one
\* death to its leaderboard row, frees its n weapons and no other, adds n
\* items (all dropped ones), removes the actor and no other from the actor
\* container, and appends one respawn entry with countdown RESPAWN_TIME.
RespawnActorEffect ==
    [][HandlesRespawnOfLive =>
        LET h == Head(queue).m.actor
            c == actors[h[1]]
            n == Len(c.weapons)
        IN  /\ DeathsOf(leader_board', c.name) = DeathsOf(leader_board, c.name) + 1
            /\ LiveHandles(weapons') =
                   LiveHandles(weapons) \ {c.weapons[i] : i \in 1..n}
            /\ Cardinality(LiveHandles(weapons')) = Cardinality(LiveHandles(weapons)) - n
            /\ LiveHandles(items) \subseteq LiveHandles(items')
            /\ Cardinality(LiveHandles(items') \ LiveHandles(items)) = n
            /\ \A i \in LiveHandles(items') \ LiveHandles(items) : items'[i[1]].dropped
            /\ LiveHandles(actors') = LiveHandles(actors) \ {h}
            /\ Len(respawn_list') = Len(respawn_list) + 1
            /\ SubSeq(respawn_list', 1, Len(respawn_list)) = respawn_list
            /\ respawn_list'[Len(respawn_list')] =
                   [isPlayer |-> c.isPlayer, name |-> c.name, kind |-> c.botKind,
                    time_left |-> F32OfInt(4)]
    ]_vars

\* a RespawnActor message was handled for a live actor that held several weapons
RespawnOfArmedWitness ==
    \E i \in 1..Len(respawns) : respawns[i].live /\ respawns[i].held >= 2

(***************************************************************************)
(* Properties of the respawn scheduler (SpecRespawn).                      *)
(***************************************************************************)
\* C4: an entry leaves respawn_list in the update_respawn call that sends its
\* spawn message, so no entry sends a spawn message in two ticks, whatever
\* the delta, also when its countdown reaches exactly 0.
SpawnedEntryIsRemoved ==
    /\ \A i, j \in 1..Len(fired) : fired[i].name = fired[j].name => i = j
    /\ \A i \in 1..Len(fired), k \in 1..Len(respawn_list) :
          respawn_list[k].name # fired[i].name

\* t - n * d, computed without rounding
ExactAfter(t, d, n) == F32Norm(t[1] - n * d[1], t[2] - n * d[2])

\* ceil(t / d): the least n with t - n * d <= 0
CeilTicks(t, d) ==
    CHOOSE n \in 1..MaxRespawnTicks :
        /\ F32LeZero(ExactAfter(t, d, n))
        /\ ~F32LeZero(ExactAfter(t, d, n - 1))

\* the tick of the first spawn message of every entry is n, and no entry is
\* still waiting for its first spawn message after tick n
FirstSpawnAt(n) ==
    /\ \A i \in 1..Len(fired) :
          (\A j \in 1..(i - 1) : fired[j].name # fired[i].name) => fired[i].tick = n
    /\ \A k \in 1..Len(respawn_list) :
          (\A i \in 1..Len(fired) : fired[i].name # respawn_list[k].name) => elapsed < n

\* C5: the first spawn message of an entry with countdown RESPAWN_TIME and
\* delta d is sent in the ceil(RESPAWN_TIME / d)-th call of update_respawn,
\* and in no earlier one.
FirstSpawnAtCeil == FirstSpawnAt(CeilTicks(RESPAWN_TIME, delta))

\* every subtraction of the countdown down to its ceil(t / d)-th is exact in f32
ExactCountdown(t, d) ==
    \A n \in 1..CeilTicks(t, d) : CountdownAfter(t, d, n) = ExactAfter(t, d, n)

\* what update_respawn does instead: the first spawn message is sent in the
\* first call after which the f32 countdown is <= 0, which is call
\* ceil(RESPAWN_TIME / d) when the f32 subtractions are exact (d = 0.5, 1, 2,
\* 3), and call 241, one past ceil(4.0 / d) = 240, when d is 1/60 as f32.
FirstSpawnAtRoundedCountdown ==
    /\ ExactCountdown(RESPAWN_TIME, delta) =>
          FirstSpawnAt(CeilTicks(RESPAWN_TIME, delta))
    /\ delta = FixedTimestep =>
          /\ CeilTicks(RESPAWN_TIME, delta) = 240
          /\ FirstSpawnAt(241)

\* an entry counted down by 1/60 has sent its spawn message
RoundedSpawnWitness ==
    /\ pc = "respawn" /\ delta = FixedTimestep
    /\ fired # <<>>

(***************************************************************************)
(* Properties of the projectile update (SpecProjectile).                   *)
(***************************************************************************)
\* C8: one projectile update damages each actor at most once, whatever ray
\* hits and contacts report it: no handle occurs twice in the list the
\* damage loop runs over, and no actor loses more than one projectile's
\* damage of armor.
EachActorDamagedOnce ==
    pc = "updated" =>
        /\ \A i, j \in 1..Len(damaged) : damaged[i] = damaged[j] => i = j
        /\ \A i \in DOMAIN actors :
              actors[i].live => actors[i].armor >= 100 - DefinitionDamage("Plasma")

(***************************************************************************)
(* Properties of the order of the steps of a tick.                         *)
(***************************************************************************)
\* C11: no handler runs while Level::update is executing: whenever a message
\* is handled, Game::update is inside handle_messages and has run
\* Engine::update and, if there was a level, every pass of Level::update of
\* this tick, and the handler leaves the record of the passes alone.
HandlersRunAfterUpdate ==
    [][Len(log') > Len(log) =>
          /\ pc = "drain"
          /\ passes' = passes
          /\ passes # <<>>
          /\ Head(passes) = "Engine::update"
          /\ Len(passes) \in {1, 1 + Len(PassOrder)}]_vars

\* a handler has run on a message that Level::update of the same tick sent,
\* after all the passes of that update
HandledAfterUpdateWitness ==
    /\ pc = "drain" /\ hasLevel
    /\ Len(passes) = 1 + Len(PassOrder)
    /\ \E i \in 1..Len(log) : log[i].m.kind = "RespawnActor" /\ ~log[i].late

\* the entries of the current tick, handled or still queued, that were sent
\* before the drain
SentBeforeDrain == SelectSeq(log \o queue, LAMBDA e : ~e.late)

\* C12: the passes of one Level::update run in the fixed order respawn
\* countdowns, proximity events, spectator camera, death zones, weapons,
\* projectiles, items, actors, contact events, match-end check (a prefix of
\* it when a pass panicked), so the death zones are tested before the actors
\* are updated; in the queue the messages of the countdowns and of the death
\* zones come before the EndMatch of the match-end check.
PassesInFixedOrder ==
    LET order == <<"update_respawn", "proximity_events", "update_spectator_camera",
                   "update_death_zones", "weapons", "projectiles", "items",
                   "actors", "contact_events", "update_game_ending">>
        ran   == Tail(passes)
    IN  passes # <<>> =>
          /\ Len(ran) <= Len(order)
          /\ ran = SubSeq(order, 1, Len(ran))
          /\ (panicked = "no" /\ ran # <<>>) => ran = order
          /\ \A i, j \in 1..Len(SentBeforeDrain) :
                (/\ SentBeforeDrain[i].m.kind = "EndMatch"
                 /\ SentBeforeDrain[j].m.kind \in {"SpawnBot", "SpawnPlayer", "RespawnActor"})
                => SentBeforeDrain[j].seq < SentBeforeDrain[i].seq

\* a Level::update has run all its passes; its death zones and its match-end
\* check have sent their messages
AllPassesWitness ==
    /\ pc = "drain" /\ panicked = "no"
    /\ Len(passes) = 11
    /\ \E i, j \in 1..Len(queue) :
          /\ i < j
          /\ queue[i].m.kind = "RespawnActor"
          /\ queue[j].m.kind = "EndMatch"

\* C13: the match-end check runs after the drain of its tick: when a tick
\* ends with a level whose leaderboard has reached the frag limit, EndMatch
\* was sent in that tick.
MatchEndEvaluatedInSameTick ==
    (pc = "drain" /\ queue = <<>> /\ hasLevel /\ panicked = "no"
        /\ IsMatchOver(leader_board))
    => \E i \in 1..Len(log) : log[i].m.kind = "EndMatch"

\* C13, amended: the match-end check is the last pass of Level::update,
\* which runs before the drain: EndMatch is sent by the Level::update of a
\* tick exactly when the leaderboard had reached the frag limit at the end
\* of the tick before, and never while the queue is drained.
MatchEndEvaluatedInNextUpdate ==
    [][/\ \A i \in 1..Len(queue') :
             queue'[i].m.kind = "EndMatch" => ~queue'[i].late
       /\ (pc = "idle" /\ pc' = "drain" /\ hasLevel /\ panicked' # "Level::update")
             => /\ IsMatchOver(leader_board) <=>
                      \E i \in 1..Len(queue') : queue'[i].m.kind = "EndMatch"
                /\ Len(passes') = 11
                /\ passes'[11] = "update_game_ending"]_vars

\* a frag was recorded in the drain of the tick before, and the Level::update
\* of this tick has sent EndMatch, which was then handled
MatchEndWitness ==
    /\ pc = "drain" /\ hasLevel
    /\ IsMatchOver(leader_board)
    /\ \E i \in 1..Len(log) : log[i].m.kind = "EndMatch" /\ ~log[i].late

(***************************************************************************)
(* Properties of Character::damage and Character::heal (SpecCharacter).    *)
(***************************************************************************)
\* C14: after any sequence of damage and heal calls the armor of a Character
\* is never negative (a damage beyond the remaining armor leaves armor 0).
ArmorNeverNegative ==
    pc = "character" => actors[1].armor >= 0

\* the size of an amount, whatever its sign
Magnitude(x) == IF x >= 0 THEN x ELSE 0 - x

\* the larger of two numbers
Max(a, b) == IF a >= b THEN a ELSE b

\* C15: damage(d) consumes armor before health within the same call: with
\* armor a > 0 and health h before the call, health afterwards is
\* h - max(0, |d| - a); with a <= 0 it is h - |d|.
DamageSpillsIntoHealth ==
    last_call.op = "damage" =>
        LET a == last_call.before.armor
            h == last_call.before.health
            d == Magnitude(last_call.amount)
        IN  actors[1].health = IF a > 0 THEN h - Max(0, d - a) ELSE h - d

\* damage(15) on armor 10 and health 100 has left health 95
SpillWitness ==
    /\ last_call.op = "damage" /\ last_call.amount = 15
    /\ last_call.before.armor = 10 /\ last_call.before.health = 100
    /\ actors[1].health = 95

\* C16: after any sequence of heal and damage calls on a Character that
\* starts at health 100, health is at most 150.
HealthAtMost150 ==
    pc = "character" => actors[1].health <= 150

\* a heal that would have passed 150 has left health at 150
HealCappedWitness ==
    /\ last_call.op = "heal"
    /\ last_call.before.health + Magnitude(last_call.amount) > 150
    /\ actors[1].health = 150

\* C17: damage(-x) and damage(x) give the same armor and health: the
\* Character after damage(x) is the one damage(-x) makes of the Character
\* before the call.
DamageIgnoresSign ==
    last_call.op = "damage" =>
        actors[1] = Damage(last_call.before, 0 - last_call.amount)

\* a damage with a negative amount has taken armor or health away
NegativeDamageWitness ==
    /\ last_call.op = "damage" /\ last_call.amount < 0
    /\ \/ actors[1].armor < last_call.before.armor
       \/ actors[1].health < last_call.before.health

(***************************************************************************)
(* Properties of Weapon::try_shoot (SpecWeapon).                           *)
(***************************************************************************)
\* the fire interval, 0.1 s, in units of 2^-29 s rounded up: a whole number
\* of units is at least 0.1 s exactly when it is at least this
FireIntervalUnits == 53687092

\* the game time of k ticks, in units of 2^-29 s
TicksInUnits(k) == k * (delta[1] * Limb + delta[2])

\* C18: two successful try_shoot calls on a weapon are at least the fire
\* interval (0.1 s) of game time apart; try_shoot returns false whenever
\* less than the interval has passed since last_shot_time; and a successful
\* call sets last_shot_time to the current time.
ShotsAnIntervalApart ==
    pc = "weapon" =>
        /\ Len(fired) = 2 => TicksInUnits(fired[2] - fired[1]) >= FireIntervalUnits
        /\ last_call.op = "try_shoot" =>
              /\ TicksInUnits(last_call.now - last_call.before.last_shot_time)
                    < FireIntervalUnits => ~last_call.ok
              /\ last_call.ok => weapons[1].last_shot_time = last_call.now

\* a second shot has succeeded at the first tick the interval allowed, six
\* fixed timesteps after the first
SecondShotWitness ==
    /\ pc = "weapon" /\ delta = FixedTimestep
    /\ Len(fired) = 2 /\ fired[2] - fired[1] = 6
    /\ last_call.op = "try_shoot" /\ last_call.ok

\* C19: the ammo of a weapon is never below 0; try_shoot with ammo 0
\* returns false, changes neither ammo nor last_shot_time and sends no
\* sound; a successful try_shoot takes exactly one round.
AmmoNeverNegative ==
    pc = "weapon" =>
        /\ weapons[1].ammo >= 0
        /\ last_call.op = "try_shoot" /\ last_call.before.ammo = 0 =>
              /\ ~last_call.ok
              /\ weapons[1] = last_call.before
              /\ last_call.sounds = <<>>
        /\ last_call.op = "try_shoot" /\ last_call.ok =>
              weapons[1].ammo = last_call.before.ammo - 1

\* the last round has been shot, and a later try_shoot on the empty weapon,
\* with the interval passed, was refused
EmptyWeaponWitness ==
    /\ pc = "weapon" /\ fired # <<>>
    /\ last_call.op = "try_shoot" /\ last_call.before.ammo = 0
    /\ TicksInUnits(last_call.now - last_call.before.last_shot_time) >= FireIntervalUnits
    /\ ~last_call.ok

(***************************************************************************)
(* Properties of the lifetime of a projectile (SpecFlight).                *)
(***************************************************************************)
\* a < b for two f32 values
F32Less(a, b) == a[1] < b[1] \/ (a[1] = b[1] /\ a[2] < b[2])

\* the lifetime the projectile of the flight was created with
FlightLifetime ==
    DefinitionLifetime(DefinitionProjectile(weapons[1].kind))

\* C20: every projectile is freed in the end.  Its lifetime decreases in
\* every update, hit or not; a projectile created with lifetime L is out of
\* the pool no later than after the ceil(L / delta)-th
\* ProjectileContainer::update since its creation (one still in the pool
\* after n updates has n * delta < L, computed without rounding); and it is
\* out of the pool after the very update in which it registered a hit.
ProjectileFreedInTime ==
    pc = "flight" =>
        /\ projectiles[1].live => ~F32LeZero(ExactAfter(FlightLifetime, delta, elapsed))
        /\ last_call.op = "update" =>
              /\ projectiles[1].live =>
                    F32Less(projectiles[1].lifetime, last_call.before.lifetime)
              /\ last_call.killed \/ last_call.hits # <<>> => ~projectiles[1].live

\* a projectile that hit nothing was freed by the 600th update with the
\* fixed timestep, the last one its lifetime of 10 s allows
TimedOutWitness ==
    /\ pc = "flight" /\ delta = FixedTimestep /\ elapsed = 600
    /\ ~projectiles[1].live
    /\ last_call.op = "update" /\ ~last_call.killed /\ last_call.hits = <<>>

\* a projectile in flight hit another actor and was freed by that update
FreedAtHitWitness ==
    /\ pc = "flight" /\ elapsed > 1
    /\ last_call.op = "update" /\ last_call.hits # <<>>
    /\ ~projectiles[1].live

(***************************************************************************)
(* Properties of ProjectileContainer::update and of the hits of a          *)
(* projectile (SpecFlight).                                                *)
(***************************************************************************)
\* the elements of a sequence
Range(s) == {s[i] : i \in DOMAIN s}

\* C21: ProjectileContainer::update frees no projectile before every live
\* projectile has had its update of the tick, and leaves no dead projectile
\* (lifetime <= 0) in the pool: after an update every projectile that was in
\* the pool before it has either been freed or has had its lifetime reduced,
\* whatever happened to the projectiles before it in the pool, and no
\* projectile in the pool has a lifetime <= 0.  A projectile that has become
\* dead never becomes alive again: a slot freed is never in flight again.
NoDeadProjectileInPool ==
    /\ [](pc = "flight" =>
            /\ \A i \in DOMAIN projectiles :
                  projectiles[i].live => ~F32LeZero(projectiles[i].lifetime)
            /\ last_call.op = "update" =>
                  \A i \in DOMAIN projectiles :
                      last_call.pool[i].live =>
                          IF projectiles[i].live
                          THEN F32Less(projectiles[i].lifetime, last_call.pool[i].lifetime)
                          ELSE projectiles[i].gen = last_call.pool[i].gen + 1)
    /\ [][pc = "flight" =>
            \A i \in DOMAIN projectiles : ~projectiles[i].live => ~projectiles'[i].live]_vars

\* the first projectile was freed at a hit in the update in which the
\* second, after it in the pool, was updated and stayed in flight
OneFreedOtherUpdatedWitness ==
    /\ pc = "flight" /\ last_call.op = "update"
    /\ last_call.pool[1].live /\ last_call.pool[2].live
    /\ last_call.killed /\ ~projectiles[1].live
    /\ projectiles[2].live
    /\ F32Less(projectiles[2].lifetime, last_call.pool[2].lifetime)

\* the actor that owns the weapon that fired the first projectile, before
\* the last update
FlightOwner == last_call.weapons[last_call.before.owner[1]].owner

\* the bodies of the actors other than the owner, and static geometry
OtherTargets == ({0} \cup {i \in DOMAIN last_call.actors : last_call.actors[i].live})
                    \ {FlightOwner[1]}

\* C22: the update of a projectile never damages the actor that owns the
\* weapon which fired it; a ray hit or a body contact with only that owner's
\* body does not kill the projectile (it stays in the pool unless its
\* lifetime has run out); a ray hit on any other actor or on static
\* geometry, or a contact of its body with any other actor, kills it.
OwnerIsNeverHit ==
    (pc = "flight" /\ last_call.op = "update"
        /\ Contains(last_call.weapons, last_call.before.owner)) =>
        LET ph == last_call.physics[1]
            hasBody == last_call.before.kind = "Plasma"
        IN  /\ actors[FlightOwner[1]] = last_call.actors[FlightOwner[1]]
            /\ \A h \in Range(last_call.hits) : h # FlightOwner
            /\ (/\ Range(ph.rays) \subseteq {FlightOwner[1]}
                /\ hasBody => Range(ph.contacts) \subseteq {FlightOwner[1]}
                /\ ~F32LeZero(ExactSub(last_call.before.lifetime, delta)))
                    => projectiles[1].live
            /\ Range(ph.rays) \cap OtherTargets # {} => ~projectiles[1].live
            /\ (hasBody /\ Range(ph.contacts) \cap (OtherTargets \ {0}) # {})
                    => ~projectiles[1].live

\* the ray of the projectile met the body of its owner, its body touched the
\* owner, and it flew on
OwnerPassedWitness ==
    /\ pc = "flight" /\ last_call.op = "update"
    /\ Contains(last_call.weapons, last_call.before.owner)
    /\ last_call.before.kind = "Plasma"
    /\ last_call.physics[1] = [rays |-> <<1>>, contacts |-> <<1>>]
    /\ projectiles[1].live

\* C23: a projectile whose firing weapon was freed while it is in flight
\* (remove_weapon has reset its owner to Handle::NONE) keeps updating and
\* resolving ray hits and contacts without failure.
OwnerlessProjectileNeverFails ==
    pc = "flight" => panicked = "no"

(***************************************************************************)
(* Properties of the weapons of a Character (SpecCharacter).               *)
(***************************************************************************)
\* the last call left current_weapon as it was and sent no message
WeaponCallDidNothing ==
    /\ actors[1].current_weapon = last_call.before.current_weapon
    /\ last_call.out = <<>>

\* C24: after any sequence of add_weapon, next_weapon, prev_weapon and
\* set_current_weapon on a Character, current_weapon < weapons.len() whenever
\* weapons is not empty; next_weapon at the last index, prev_weapon at index
\* 0 and set_current_weapon with an index out of range leave current_weapon
\* unchanged and send no message.
CurrentWeaponInRange ==
    pc = "character" =>
        /\ actors[1].weapons # <<>> => actors[1].current_weapon < Len(actors[1].weapons)
        /\ (last_call.op = "next_weapon"
                /\ last_call.before.current_weapon = Len(last_call.before.weapons) - 1)
              => WeaponCallDidNothing
        /\ (last_call.op = "prev_weapon" /\ last_call.before.current_weapon = 0)
              => WeaponCallDidNothing
        /\ (last_call.op = "set_current_weapon"
                /\ last_call.amount >= Len(last_call.before.weapons))
              => WeaponCallDidNothing

\* next_weapon was called on a Character with several weapons and the last
\* of them current
NextAtLastWeaponWitness ==
    /\ pc = "character" /\ last_call.op = "next_weapon"
    /\ Len(last_call.before.weapons) >= 2
    /\ last_call.before.current_weapon = Len(last_call.before.weapons) - 1
    /\ actors[1] = last_call.before

(***************************************************************************)
(* Properties of find_suitable_spawn_point (SpecSpawn).                    *)
(***************************************************************************)
\* the sum of the distances of spawn point j (counted from 1) of the last
\* call to the actors, added up from the last actor to the first
DistanceSum(j) ==
    LET RECURSIVE Upto(_)
        Upto(n) == IF n = 0 THEN 0
                   ELSE Upto(n - 1)
                        + Magnitude(last_call.points[j] - last_call.positions[n])
    IN  Upto(Len(last_call.positions))

\* C25: find_suitable_spawn_point returns an index of a spawn point whose
\* sum of distances to the live actors is the maximum over all spawn
\* points; with two candidates and one live actor it returns the point
\* farther from that actor.
SpawnPointIsFarthest ==
    last_call.op = "find_suitable_spawn_point" =>
        /\ last_call.index \in 0..(Len(last_call.points) - 1)
        /\ \A j \in 1..Len(last_call.points) :
              DistanceSum(j) <= DistanceSum(last_call.index + 1)
        /\ (Len(last_call.points) = 2 /\ Len(last_call.positions) = 1) =>
              \A j \in 1..2 :
                  Magnitude(last_call.points[j] - last_call.positions[1])
                      <= Magnitude(last_call.points[last_call.index + 1]
                                      - last_call.positions[1])

\* of two candidates the second is farther from the one actor, the random
\* index was the first, and the second was returned
FartherOfTwoWitness ==
    /\ last_call.op = "find_suitable_spawn_point"
    /\ Len(last_call.points) = 2 /\ Len(last_call.positions) = 1
    /\ DistanceSum(2) > DistanceSum(1)
    /\ last_call.random = 0
    /\ last_call.index = 1

\* C26: with no live actors find_suitable_spawn_point falls back to the
\* random choice among all spawn points: the index returned is the index
\* drawn, so that every index is a possible result.
NoActorsRandomSpawnPoint ==
    (last_call.op = "find_suitable_spawn_point" /\ last_call.positions = <<>>) =>
        last_call.index = last_call.random

(***************************************************************************)
(* Properties of the LeaderBoard (SpecBoard).                              *)
(***************************************************************************)
\* the number of calls op(name) made so far
CallsOf(op, name) ==
    Len(SelectSeq(fired, LAMBDA c : c.op = op /\ c.name = name))

\* C27: for every actor name, after any sequence of add_frag and add_death
\* calls with no remove_actor for that name, kills(name) is the number of
\* add_frag(name) calls and deaths(name) the number of add_death(name)
\* calls; the entry is created at zero on the first reference (a name is
\* recorded exactly when it has been referenced), and calls for one name
\* never change the record of another.
ScoresCountCalls ==
    pc = "board" =>
        \A name \in BoardNames :
            CallsOf("remove_actor", name) = 0 =>
                /\ ScoreOf(leader_board, name) = CallsOf("add_frag", name)
                /\ DeathsOf(leader_board, name) = CallsOf("add_death", name)
                /\ name \in DOMAIN leader_board <=>
                      CallsOf("add_frag", name) + CallsOf("add_death", name) > 0

\* one name has two frags and a death, another a frag only
SeveralScoresWitness ==
    /\ pc = "board"
    /\ \E a, b \in DOMAIN leader_board :
          /\ a # b
          /\ leader_board[a] = [kills |-> 2, deaths |-> 1]
          /\ leader_board[b] = [kills |-> 1, deaths |-> 0]

\* the names recorded other than the one excepted in the last call
OtherNames ==
    DOMAIN leader_board \ (IF last_call.except = <<>> THEN {} ELSE {last_call.except[1]})

\* C28: highest_personal_score(except = Some(n)) never returns n and returns
\* a name whose kills are the maximum over all other recorded names, None
\* exactly when no other name is recorded; with except = None it returns a
\* name with the overall maximum of kills.
HighestIsMaximumOfOthers ==
    (pc = "board" /\ last_call.op = "highest_personal_score") =>
        /\ last_call.result = <<>> <=> OtherNames = {}
        /\ last_call.result # <<>> =>
              /\ last_call.result[1].name \in OtherNames
              /\ last_call.result[1].kills = leader_board[last_call.result[1].name].kills
              /\ \A o \in OtherNames :
                    leader_board[o].kills <= last_call.result[1].kills

\* the leader was excepted and the second place returned
SecondPlaceWitness ==
    /\ pc = "board" /\ last_call.op = "highest_personal_score"
    /\ last_call.except # <<>> /\ last_call.result # <<>>
    /\ last_call.except[1] \in DOMAIN leader_board
    /\ leader_board[last_call.except[1]].kills > last_call.result[1].kills
    /\ last_call.result[1].kills > 0

(***************************************************************************)
(* Properties of Game::load_game (SpecLoad).                               *)
(***************************************************************************)
\* C29: if load_game fails at any stage (the save file is unreadable, the
\* engine state or the level state fails to decode), the level of the
\* running session is left exactly as it was before the load, and the menu
\* stays visible.
FailedLoadKeepsLevel ==
    (last_call.op = "load_game" /\ last_call.stage # "ok") =>
        /\ <<hasLevel, levelVars>> = last_call.before
        /\ pc = "menu"

(***************************************************************************)
(* Properties of a projectile saved and loaded (SpecSave).                 *)
(***************************************************************************)
\* the fields C30 names
RestoredFields ==
    {"kind", "dir", "initial_velocity", "lifetime", "owner", "last_position"}

\* C30: a projectile saved through Visit and loaded again has every field
\* restored (kind, direction, initial velocity, lifetime, owner weapon and
\* the position of the last frame), so that the swept ray of its first
\* update after the load starts from the last position that was saved.
LoadedProjectileIsRestored ==
    pc \in {"loaded", "updated"} =>
        /\ \A f \in RestoredFields : last_call.loaded[f] = last_call.saved[f]
        /\ pc = "updated" =>
              last_call.ray = RayFromTwoPoints(last_call.saved.last_position,
                                               last_call.position)

(***************************************************************************)
(* Properties of the population of a level (Spec).                         *)
(***************************************************************************)
\* the live actors of the level
LiveActors == Cardinality({i \in DOMAIN actors : actors[i].live})

\* the spawn messages in the channel
PendingSpawns ==
    Cardinality({i \in DOMAIN queue : queue[i].m.kind \in {"SpawnBot", "SpawnPlayer"}})

\* the live actors, the actors waiting in respawn_list and the actors whose
\* spawn message is in the channel
Population == LiveActors + Len(respawn_list) + PendingSpawns

\* the kind of the message a step of handle_messages handles, "" for a step
\* that handles none
HandledKind ==
    IF pc = "drain" /\ queue # <<>> /\ Len(log') = Len(log) + 1
    THEN Head(queue).m.kind ELSE ""

\* C31: at the tick boundaries, where the queue has been drained, the
\* number of live actors plus the number of pending respawn entries is not
\* changed by death and respawn.  In a level, respawn_actor turns a live
\* actor into one respawn entry, update_respawn turns an entry into one
\* spawn message in the tick it drops the entry, and the handler of the
\* spawn message turns it into one live actor before the tick ends: no
\* step of the level other than the handling of RemoveActor for a live
\* actor changes the population, and no spawn message is pending between
\* two ticks.  (No AddBot message is sent in the model; the steps that
\* replace or destroy the level are aside.)
PopulationKeptByRespawn ==
    /\ [](pc = "idle" => PendingSpawns = 0)
    /\ [][(hasLevel /\ hasLevel' /\ ~(HandledKind \in {"StartNewGame", "QuitGame"}))
            => Population' = Population
                 - (IF /\ HandledKind = "RemoveActor"
                       /\ Contains(actors, Head(queue).m.actor)
                    THEN 1 ELSE 0)]_vars

\* a tick boundary after an actor has died and has been created again
RespawnedWitness ==
    /\ pc = "idle" /\ hasLevel /\ panicked = "no"
    /\ respawn_list = <<>>
    /\ LiveActors = NumBots + 1
    /\ quiets = 1
    /\ \E n \in DOMAIN leader_board : leader_board[n].deaths = 1

(***************************************************************************)
(* Properties of the messages of a level that was replaced (Spec).         *)
(***************************************************************************)
\* the step handles a message that a level sent which StartNewGame has
\* replaced since: it was sent before the drain began (by Level::update
\* or, between the ticks, by the actors of the level), and StartNewGame has
\* been handled in this drain.  Before a StartNewGame that finds no level
\* nothing but the StartNewGame itself is in the channel.
HandlesMessageOfOldLevel ==
    /\ HandledKind # ""
    /\ ~Head(queue).late
    /\ \E i \in DOMAIN log : log[i].m.kind = "StartNewGame"

\* C32: a message enqueued by one Level is never applied to another Level:
\* when StartNewGame replaces the level in the middle of a drain, the
\* messages of the old level that are still in the channel, with the
\* handles of the old level in them, change nothing in the new level.
OldMessagesLeaveNewLevel ==
    [][HandlesMessageOfOldLevel => UNCHANGED levelVars]_vars

(***************************************************************************)
(* Properties of the player of a level (Spec).                             *)
(***************************************************************************)
\* the live Player actors
LivePlayers == {i \in DOMAIN actors : actors[i].live /\ actors[i].isPlayer}

\* Level.player is NONE or the handle of a live Player actor
PlayerHandleIsLive ==
    IsSome(player) => (Contains(actors, player) /\ player[1] \in LivePlayers)

\* C33: after any sequence of RespawnActor, RemoveActor and SpawnPlayer
\* messages at most one Player actor is live, and Level.player is either
\* NONE or the handle of that live Player actor, never a stale handle.
AtMostOnePlayer ==
    /\ Cardinality(LivePlayers) <= 1
    /\ PlayerHandleIsLive

(***************************************************************************)
(* Properties of the weapons of the actors (Spec).                         *)
(***************************************************************************)
\* the handle of the actor, and of the weapon, in slot i
ActorHandle(i) == <<i, actors[i].gen>>
WeaponHandle(j) == <<j, weapons[j].gen>>

\* C34: in every state between two message handlers, every weapon handle
\* in the weapon list of a live actor refers to a live weapon whose owner is
\* that actor, and every live weapon is in the weapon list of a live actor:
\* removing an actor frees all of its weapons, and no weapon is left
\* without an actor.
WeaponsBelongToActors ==
    panicked = "no" =>
        /\ \A i \in DOMAIN actors : actors[i].live =>
              \A w \in Range(actors[i].weapons) :
                  Contains(weapons, w) /\ weapons[w[1]].owner = ActorHandle(i)
        /\ \A j \in DOMAIN weapons : weapons[j].live =>
              \E i \in DOMAIN actors :
                  actors[i].live /\ WeaponHandle(j) \in Range(actors[i].weapons)

\* a tick boundary after an actor with weapons has been removed, with armed
\* actors left
ArmedActorRemovedWitness ==
    /\ pc = "idle" /\ hasLevel /\ panicked = "no"
    /\ freed # {}
    /\ \E j \in DOMAIN weapons : ~weapons[j].live /\ weapons[j].gen > 1
    /\ \E i \in DOMAIN actors : actors[i].live /\ actors[i].weapons # <<>>

(***************************************************************************)
(* Properties of the handling of DamageActor (Spec).                       *)
(***************************************************************************)
\* the DamageActor message m names a live target and no attacker or a live
\* one
DamageApplies(m) ==
    Contains(actors, m.actor) /\ (~IsSome(m.who) \/ Contains(actors, m.who))

\* C35: a DamageActor message is applied only when the target is live and
\* the attacker is NONE or live.  When the handle of the attacker (or of the
\* target) is stale at the time the message is handled, the health and the
\* armor of every actor and the leader board are left as they were; in the
\* other case the target is damaged.
StaleAttackerDamagesNothing ==
    [][HandledKind = "DamageActor" =>
          LET m == Head(queue).m
          IN  IF DamageApplies(m)
              THEN /\ actors'[m.actor[1]].live
                   /\ <<actors'[m.actor[1]].health, actors'[m.actor[1]].armor>>
                         # <<actors[m.actor[1]].health, actors[m.actor[1]].armor>>
              ELSE UNCHANGED <<actors, leader_board>>]_vars

\* a DamageActor message has just been handled whose target is live and
\* whose attacker is a handle that is not valid
StaleAttackerWitness ==
    /\ pc = "drain" /\ hasLevel /\ panicked = "no"
    /\ log # <<>>
    /\ LET m == log[Len(log)].m
       IN  /\ m.kind = "DamageActor"
           /\ Contains(actors, m.actor)
           /\ IsSome(m.who) /\ ~Contains(actors, m.who)

(***************************************************************************)
(* Properties of the frags damage_actor credits (Spec).                    *)
(***************************************************************************)
\* the kills the board lb records for the name
FragsOf(lb, name) == IF name \in DOMAIN lb THEN lb[name].kills ELSE 0

\* the kills the board records in all
RECURSIVE TotalFrags(_, _)
TotalFrags(lb, names) ==
    IF names = {} THEN 0
    ELSE LET n == CHOOSE x \in names : TRUE
         IN  lb[n].kills + TotalFrags(lb, names \ {n})

\* C36: a kill is credited at most once.  damage_actor adds one frag, to
\* the attacker, for the damage that takes the target from alive to dead;
\* a DamageActor message to a target that is dead already adds no frag, and
\* damage with no attacker (who = NONE) adds no frag.
FragOnlyForTheKill ==
    [][HandledKind = "DamageActor" =>
          LET m      == Head(queue).m
              kills  == DamageApplies(m) /\ IsSome(m.who)
                          /\ ~IsDead(actors[m.actor[1]])
                          /\ IsDead(actors'[m.actor[1]])
              killer == actors[m.who[1]].name
          IN  /\ TotalFrags(leader_board', DOMAIN leader_board')
                    = TotalFrags(leader_board, DOMAIN leader_board)
                        + (IF kills THEN 1 ELSE 0)
              /\ kills => FragsOf(leader_board', killer)
                            = FragsOf(leader_board, killer) + 1]_vars

\* a DamageActor message with a live attacker has just been handled whose
\* target was dead before it (its armor and its health were at most 0 before
\* the amount was taken off), and the board holds the one frag of the kill
DamagedAfterDeathWitness ==
    /\ pc = "drain" /\ hasLevel /\ panicked = "no"
    /\ log # <<>>
    /\ LET m == log[Len(log)].m
       IN  /\ m.kind = "DamageActor"
           /\ DamageApplies(m) /\ IsSome(m.who)
           /\ actors[m.actor[1]].armor + m.amount <= 0
           /\ actors[m.actor[1]].health + m.amount <= 0
    /\ TotalFrags(leader_board, DOMAIN leader_board) = 1

(***************************************************************************)
(* Properties of the handling of ShootWeapon (Spec).                       *)
(***************************************************************************)
\* the step handles ShootWeapon for a live weapon and try_shoot succeeds: it
\* takes a round off the ammo of the weapon
ShotSucceeds ==
    LET w == Head(queue).m.weapon
    IN  Contains(weapons, w) /\ weapons'[w[1]].ammo = weapons[w[1]].ammo - 1

\* C37: handling ShootWeapon adds exactly one projectile, of the projectile
\* kind of the weapon and owned by that weapon, when the weapon handle is
\* live and try_shoot succeeds; it adds none, and changes no projectile,
\* when try_shoot fails or the weapon handle is stale.
ShotAddsOneProjectile ==
    [][HandledKind = "ShootWeapon" =>
          LET w == Head(queue).m.weapon
          IN  IF ShotSucceeds
              THEN \E i \in DOMAIN projectiles :
                      /\ ~projectiles[i].live /\ projectiles'[i].live
                      /\ projectiles'[i].kind = DefinitionProjectile(weapons[w[1]].kind)
                      /\ projectiles'[i].owner = w
                      /\ \A j \in DOMAIN projectiles \ {i} :
                            projectiles'[j] = projectiles[j]
              ELSE /\ projectiles' = projectiles
                   /\ weapons' = weapons]_vars

\* a ShootWeapon message has just been handled with a shot: the weapon has
\* fired in this tick and its projectile is in the pool
ShotFiredWitness ==
    /\ pc = "drain" /\ hasLevel /\ panicked = "no"
    /\ log # <<>>
    /\ LET m == log[Len(log)].m
       IN  /\ m.kind = "ShootWeapon"
           /\ Contains(weapons, m.weapon)
           /\ weapons[m.weapon[1]].last_shot_time = elapsed
           /\ \E i \in DOMAIN projectiles :
                 projectiles[i].live /\ projectiles[i].owner = m.weapon

(***************************************************************************)
(* Properties of the end of the drain (SpecDrain).                         *)
(***************************************************************************)
\* the messages whose handlers send nothing
QuietKinds == {"ShowWeapon", "AddNotification", "PlaySound"}

\* the messages the handler of the step has sent
SentByHandler == SubSeq(queue', Len(queue), Len(queue'))

\* C38: the drain of a tick terminates.  Every handler sends only
\* notifications, sounds and ShowWeapon messages, and the handlers of these
\* send nothing, so that every drain that has begun comes to its end with
\* the queue empty (or the process has panicked in a handler).
DrainTerminates ==
    /\ [][HandledKind # "" =>
            /\ \A i \in DOMAIN SentByHandler :
                  SentByHandler[i].late /\ SentByHandler[i].m.kind \in QuietKinds
            /\ HandledKind \in QuietKinds => SentByHandler = <<>>]_vars
    /\ (pc = "drain") ~> (\/ pc = "idle" /\ queue = <<>>
                          \/ panicked # "no"
                          \/ HandlerOutOfBounds)

\* a drain has emptied the queue after it handled a spawn message of
\* Level::update and the messages the handlers sent
DrainEmptiedWitness ==
    /\ pc = "drain" /\ queue = <<>> /\ panicked = "no"
    /\ \E i \in DOMAIN log : log[i].m.kind = "SpawnBot" /\ ~log[i].late
    /\ \E i \in DOMAIN log : log[i].m.kind = "ShowWeapon" /\ log[i].late
    /\ \E i \in DOMAIN log : log[i].m.kind = "AddNotification" /\ log[i].late

\* the weapons of the Character a: all are live, and the one at
\* current_weapon is visible and no other
OnlyCurrentWeaponShown(a) ==
    /\ a.current_weapon < Len(a.weapons)
    /\ \A k \in DOMAIN a.weapons :
          /\ Contains(weapons, a.weapons[k])
          /\ weapons[a.weapons[k][1]].visible <=> (k = a.current_weapon + 1)

\* C39: when the channel is empty, every live actor that holds weapons has
\* exactly one visible weapon, the one at current_weapon, whatever weapons
\* were picked up and whatever next_weapon, prev_weapon and
\* set_current_weapon calls were made; the player of a new level holds the
\* four weapons of the loadout and shows the last one.
OneVisibleWeapon ==
    (queue = <<>> /\ panicked = "no") =>
        /\ \A i \in DOMAIN actors :
              (actors[i].live /\ actors[i].weapons # <<>>) =>
                  OnlyCurrentWeaponShown(actors[i])
        /\ elapsed = 0 =>
              /\ Contains(actors, player)
              /\ [k \in 1..Len(actors[player[1]].weapons) |->
                     weapons[actors[player[1]].weapons[k][1]].kind] = WeaponsToGive
              /\ actors[player[1]].current_weapon = Len(WeaponsToGive) - 1

\* the channel is empty after an actor picked up a fifth weapon and went
\* back to another one
SwitchedAfterPickUpWitness ==
    /\ queue = <<>> /\ panicked = "no" /\ drains >= 2
    /\ \E i \in DOMAIN actors :
          /\ actors[i].live
          /\ Len(actors[i].weapons) = Len(WeaponsToGive) + 1
          /\ actors[i].current_weapon < Len(WeaponsToGive)

\* C40: spawning a player or a bot in a level with no spawn points does
\* not fail: the call does not panic, and the actor is created at the
\* default position, the origin.
SpawnWithoutPointsSucceeds ==
    (last_call.points = <<>> /\ pc # "spawn") =>
        /\ panicked = "no"
        /\ pc = "placed" =>
              /\ last_call.position = Origin
              /\ \E i \in DOMAIN actors : actors[i].live

====
